---- MODULE Spec2Model ----
(***************************************************************************)
(* A model of the question-extraction pipeline: the retry policy of the    *)
(* service clients, the rule-based LaTeX converter, the vector store and   *)
(* the retriever's reranking, and the orchestration of process_pdf.        *)
(*                                                                         *)
(* Text is a sequence of one-character strings.  A character outside       *)
(* ASCII is written as its code point ("u221A" is the root sign).          *)
(***************************************************************************)
EXTENDS Integers, Sequences, FiniteSets, TLC

(***************************************************************************)
(* Character classes of the regular expressions used by the source.        *)
(***************************************************************************)
LowerSeq ==
    <<"a","b","c","d","e","f","g","h","i","j","k","l","m",
      "n","o","p","q","r","s","t","u","v","w","x","y","z">>

UpperSeq ==
    <<"A","B","C","D","E","F","G","H","I","J","K","L","M",
      "N","O","P","Q","R","S","T","U","V","W","X","Y","Z">>

Lower ==
    {LowerSeq[i] : i \in 1..Len(LowerSeq)}

Upper ==
    {UpperSeq[i] : i \in 1..Len(UpperSeq)}

Digits ==
    {"0","1","2","3","4","5","6","7","8","9"}

Letters ==
    Lower \cup Upper

AlNum ==
    Letters \cup Digits

\* the Greek letters of MATH_SYMBOLS (alphabetic, so \w matches them)
GreekLetters ==
    {"u03B1","u03B2","u03B3","u03B4","u03B8","u03BB","u03BC","u03C3","u03C6","u03C9","u03A3"}

\* \w of the re module, over the characters of the model
WordChars ==
    AlNum \cup {"_"} \cup GreekLetters

\* \s of the re module (ASCII part)
Space ==
    {" ", "\n", "\t"}

\* no repetition limit of a quantifier (+, *)
Inf ==
    1000

Only(S) ==
    [neg |-> FALSE, set |-> S]

Not(S) ==
    [neg |-> TRUE, set |-> S]

In(c, cls) ==
    (c \in cls.set) # cls.neg

(***************************************************************************)
(* Pattern items: a character class repeated lo..hi times (greedy), inside *)
(* capture group g (0: none), the word boundary \b, or a literal text.     *)
(***************************************************************************)
Rep(cls, lo, hi, g) ==
    [kind |-> "cls", cls |-> cls, lo |-> lo, hi |-> hi, g |-> g, s |-> <<>>]

Lit(c) ==
    Rep(Only({c}), 1, 1, 0)

Plus(S, g) ==
    Rep(Only(S), 1, Inf, g)

One(S, g) ==
    Rep(Only(S), 1, 1, g)

PlusNot(S, g) ==
    Rep(Not(S), 1, Inf, g)

Ws0 ==
    Rep(Only(Space), 0, Inf, 0)

Ws1 ==
    Rep(Only(Space), 1, Inf, 0)

WordB ==
    [kind |-> "wb", cls |-> Only({}), lo |-> 0, hi |-> 0, g |-> 0, s |-> <<>>]

\* Body(v), with v evaluated once, before Body: a rewrite's result is named
\* and then used, as the source's assignments do
Let(v, Body(_)) ==
    CHOOSE y \in {Body(x) : x \in {v}} : TRUE

\* the set S, enumerated
Eager(S) ==
    {x : x \in S}

MinOf(S) ==
    Let(Eager(S), LAMBDA T : CHOOSE x \in T : \A y \in T : x <= y)

MaxOf(S) ==
    Let(Eager(S), LAMBDA T : CHOOSE x \in T : \A y \in T : x >= y)

\* the items matching the literal text s
Lits(s) ==
    <<[kind |-> "str", cls |-> Only({}), lo |-> 0, hi |-> 0, g |-> 0, s |-> s]>>

\* how many characters from pos on are in cls, at most cap
RunLen(text, pos, cls, cap) ==
    Let(IF Len(text) - pos + 1 < cap THEN Len(text) - pos + 1 ELSE cap,
        LAMBDA room :
            IF room <= 0 THEN 0
            ELSE CHOOSE n \in 0..room :
                     /\ \A i \in 0..(n - 1) : In(text[pos + i], cls)
                     /\ n = room \/ ~In(text[pos + n], cls))

IsWordAt(text, pos) ==
    pos >= 1 /\ pos <= Len(text) /\ text[pos] \in WordChars

IsBoundary(text, pos) ==
    IsWordAt(text, pos - 1) # IsWordAt(text, pos)

\* the counts of characters item may take at p, as the re module would
\* try them (a greedy class takes the largest first)
Counts(item, text, p) ==
    IF item.kind = "wb" THEN (IF IsBoundary(text, p) THEN {0} ELSE {})
    ELSE IF item.kind = "str"
    THEN (IF p + Len(item.s) - 1 <= Len(text)
             /\ SubSeq(text, p, p + Len(item.s) - 1) = item.s
          THEN {Len(item.s)} ELSE {})
    ELSE item.lo..RunLen(text, p, item.cls, item.hi)

\* the positions where item can start so that the rest of the pattern
\* matches after it; next holds these positions for the rest
OkItem(item, text, next) ==
    Eager({p \in 1..(Len(text) + 1) : \E c \in Counts(item, text, p) : p + c \in next})

RECURSIVE OkFrom(_, _, _)
\* for the items k, k+1, ... of pat and then the end of the pattern: the
\* positions where a match of the pattern from that item on can start
OkFrom(pat, text, k) ==
    IF k > Len(pat) THEN <<1..(Len(text) + 1)>>
    ELSE Let(OkFrom(pat, text, k + 1),
             LAMBDA rest : <<OkItem(pat[k], text, rest[1])>> \o rest)

RECURSIVE EndsFrom(_, _, _, _, _)
\* re's backtracking match of items k.. of pat at p, which exists: the
\* position after each item, every item taking the first count the re
\* module tries that lets the rest match
EndsFrom(pat, text, oks, k, p) ==
    IF k > Len(pat) THEN <<>>
    ELSE Let(p + MaxOf({c \in Counts(pat[k], text, p) : p + c \in oks[k + 1]}),
             LAMBDA q : <<q>> \o EndsFrom(pat, text, oks, k + 1, q))

\* the text captured by group g of a match at pos with item ends `ends`
Group(pat, text, pos, ends, g) ==
    Let(Eager({k \in 1..Len(pat) : pat[k].g = g}),
        LAMBDA ks :
            SubSeq(text, IF MinOf(ks) = 1 THEN pos ELSE ends[MinOf(ks) - 1],
                   ends[MaxOf(ks)] - 1))

\* one part of a replacement template: a literal text <<"L", s>> or a group
\* reference <<"G", g>>
ExpandPart(part, pat, text, pos, ends) ==
    IF part[1] = "L" THEN part[2] ELSE Group(pat, text, pos, ends, part[2])

RECURSIVE FlattenRange(_, _, _)
FlattenRange(ss, lo, hi) ==
    IF lo > hi THEN <<>>
    ELSE IF lo = hi THEN ss[lo]
    ELSE FlattenRange(ss, lo, (lo + hi) \div 2)
         \o FlattenRange(ss, ((lo + hi) \div 2) + 1, hi)

\* the concatenation of the texts ss[1], ss[2], ...
Flatten(ss) ==
    Let(ss \o <<>>, LAMBDA v : FlattenRange(v, 1, Len(v)))

\* a replacement template expanded for a match
Expand(tmpl, pat, text, pos, ends) ==
    Flatten([i \in 1..Len(tmpl) |-> ExpandPart(tmpl[i], pat, text, pos, ends)])

\* the first match of a non-empty text at a position >= pos: its start p
\* (0 if there is none) and its item ends
NextMatch(pat, text, oks, pos) ==
    Let(Eager({p \in pos..Len(text) :
                 p \in oks[1] /\ EndsFrom(pat, text, oks, 1, p)[Len(pat)] > p}),
        LAMBDA ps : IF ps = {} THEN [p |-> 0, ends |-> <<>>]
                    ELSE Let(MinOf(ps),
                             LAMBDA p : [p |-> p, ends |-> EndsFrom(pat, text, oks, 1, p)]))

RECURSIVE SubFrom(_, _, _, _, _)
SubFrom(pat, tmpl, text, oks, pos) ==
    Let(NextMatch(pat, text, oks, pos), LAMBDA m :
        IF m.p = 0 THEN SubSeq(text, pos, Len(text))
        ELSE SubSeq(text, pos, m.p - 1) \o Expand(tmpl, pat, text, m.p, m.ends)
             \o SubFrom(pat, tmpl, text, oks, m.ends[Len(pat)]))

\* re.sub(pat, tmpl, text): every non-overlapping match, left to right
Sub(pat, tmpl, text) ==
    Let(<<pat, tmpl, text>>, LAMBDA a :
    Let(OkFrom(a[1], a[3], 1), LAMBDA oks : SubFrom(a[1], a[2], a[3], oks, 1)))

StartsWith(text, s) ==
    Len(text) >= Len(s) /\ SubSeq(text, 1, Len(s)) = s

\* the first position >= pos where s occurs in text, 0 if none
Find(text, s, pos) ==
    Let(Eager({p \in pos..(Len(text) - Len(s) + 1) : SubSeq(text, p, p + Len(s) - 1) = s}),
        LAMBDA ps : IF ps = {} THEN 0 ELSE MinOf(ps))

RECURSIVE ReplaceFrom(_, _, _, _)
ReplaceFrom(text, old, new, pos) ==
    Let(Find(text, old, pos), LAMBDA p :
        IF p = 0 THEN SubSeq(text, pos, Len(text))
        ELSE SubSeq(text, pos, p - 1) \o new
             \o Let(p + Len(old), LAMBDA q : ReplaceFrom(text, old, new, q)))

\* str.replace(old, new) for a non-empty old
Replace(text, old, new) ==
    Let(<<text, old, new>>, LAMBDA a : ReplaceFrom(a[1], a[2], a[3], 1))

Contains(text, s) ==
    Find(text, s, 1) # 0

\* one step of a method that rewrites its text rule after rule: a
\* (pattern, replacement) pair given to re.sub, or a str.replace
SubRule(pat, tmpl) ==
    [kind |-> "sub", pat |-> pat, tmpl |-> tmpl, old |-> <<>>, new |-> <<>>]

ReplaceRule(old, new) ==
    [kind |-> "replace", pat |-> <<>>, tmpl |-> <<>>, old |-> old, new |-> new]

ApplyRule(rule, text) ==
    IF rule.kind = "sub" THEN Sub(rule.pat, rule.tmpl, text)
    ELSE Replace(text, rule.old, rule.new)

RECURSIVE ApplyRules(_, _, _)
\* "for pattern, replacement in patterns: text = re.sub(...)" from rule i on
ApplyRules(rules, i, text) ==
    IF i > Len(rules) THEN text
    ELSE Let(<<ApplyRule(rules[i], text), i + 1>>,
             LAMBDA a : ApplyRules(rules, a[2], a[1]))

(***************************************************************************)
(* LaTeXConverter (processors/latex_converter.py).                         *)
(***************************************************************************)
L(s) ==
    <<"L", s>>

G(g) ==
    <<"G", g>>

DigitChar ==
    <<"0","1","2","3","4","5","6","7","8","9">>

RECURSIVE DecStr(_)
\* str(n) of a natural number
DecStr(n) ==
    IF n < 10 THEN <<DigitChar[n + 1]>>
    ELSE DecStr(n \div 10) \o <<DigitChar[(n % 10) + 1]>>

\* f"__LATEX_CMD_{i}__"
Placeholder(i) ==
    <<"_","_","L","A","T","E","X","_","C","M","D","_">> \o DecStr(i) \o <<"_","_">>

RECURSIVE ArgsEnd(_, _)
\* (?:\{[^}]*\})* from pos: the position after the last braced argument
ArgsEnd(text, pos) ==
    IF pos > Len(text) THEN pos
    ELSE IF text[pos] # "{" THEN pos
    ELSE Let(pos + 1 + RunLen(text, pos + 1, Not({"}"}), Inf),
             LAMBDA close :
                 IF close <= Len(text) /\ text[close] = "}"
                 THEN Let(close + 1, LAMBDA q : ArgsEnd(text, q))
                 ELSE pos)

\* the end (exclusive) of a match of \\[a-zA-Z]+(?:\{[^}]*\})* at pos, 0 if none
CommandEnd(text, pos) ==
    IF text[pos] # "\\" THEN 0
    ELSE Let(RunLen(text, pos + 1, Only(Letters), Inf),
             LAMBDA n : IF n = 0 THEN 0
                        ELSE Let(pos + 1 + n, LAMBDA q : ArgsEnd(text, q)))

RECURSIVE FindCommandsFrom(_, _)
FindCommandsFrom(text, pos) ==
    Let(Eager({p \in pos..Len(text) : CommandEnd(text, p) # 0}),
        LAMBDA ps :
            IF ps = {} THEN <<>>
            ELSE Let(MinOf(ps), LAMBDA p :
                 Let(CommandEnd(text, p), LAMBDA e :
                     <<SubSeq(text, p, e - 1)>> \o FindCommandsFrom(text, e))))

\* re.findall(r'\\[a-zA-Z]+(?:\{[^}]*\})*', text)
FindCommands(text) ==
    Let(text, LAMBDA t : FindCommandsFrom(t, 1))

RECURSIVE ProtectLoop(_, _, _)
ProtectLoop(text, cmds, i) ==
    IF i > Len(cmds) THEN text
    ELSE Let(<<Replace(text, cmds[i], Placeholder(i - 1)), i + 1>>,
             LAMBDA a : ProtectLoop(a[1], cmds, a[2]))

\* the text _protect_existing_latex returns; it stores FindCommands(text)
\* in self._protected_commands
_protect_existing_latex(text) ==
    Let(<<text, FindCommands(text)>>, LAMBDA a : ProtectLoop(a[1], a[2], 1))

BS ==
    "\\"

FracTmpl ==
    <<L(<<BS,"f","r","a","c","{">>), G(1), L(<<"}","{">>), G(2), L(<<"}">>)>>

\* the fraction rules with the rule of numeric fractions left out
FractionRulesWithoutNumeric ==
    <<SubRule(<<Lit("("), PlusNot({")"}, 1), Lit(")"), Ws0, Lit("/"), Ws0,
                Lit("("), PlusNot({")"}, 2), Lit(")")>>, FracTmpl),
      SubRule(<<Plus(Letters, 1), Ws0, Lit("/"), Ws0, Plus(Letters, 2)>>, FracTmpl)>>

\* patterns of _convert_fractions
FRACTION_PATTERNS ==
    <<SubRule(<<Plus(Digits, 1), Ws0, Lit("/"), Ws0, Plus(Digits, 2)>>, FracTmpl),
      SubRule(<<Lit("("), PlusNot({")"}, 1), Lit(")"), Ws0, Lit("/"), Ws0,
                Lit("("), PlusNot({")"}, 2), Lit(")")>>, FracTmpl),
      SubRule(<<Plus(Letters, 1), Ws0, Lit("/"), Ws0, Plus(Letters, 2)>>, FracTmpl)>>

_convert_fractions(text) ==
    ApplyRules(FRACTION_PATTERNS, 1, text)

SupTmpl ==
    <<G(1), L(<<"^","{">>), G(2), L(<<"}">>)>>

SubTmpl ==
    <<G(1), L(<<"_","{">>), G(2), L(<<"}">>)>>

\* the substitutions of _convert_exponents_subscripts, in order
EXPONENT_RULES ==
    <<SubRule(<<One(AlNum, 1), Lit("^"), Plus(AlNum, 2)>>, SupTmpl),
      SubRule(<<One(AlNum, 1), Lit("^"), Rep(Only({"+","-"}), 0, 1, 2), Plus(Digits, 2)>>,
              SupTmpl),
      SubRule(<<One(Letters, 1), Lit("_"), Plus(AlNum, 2)>>, SubTmpl),
      SubRule(<<One(Letters, 1), Lit("_"), Plus(Digits, 2)>>, SubTmpl),
      SubRule(<<WordB, One({"x","y","z"}, 1), Ws0, Lit("^"), Ws0, Lit("2"), WordB>>,
              <<G(1), L(<<"^","2">>)>>),
      SubRule(<<WordB, One({"x","y","z"}, 1), Ws0, Lit("^"), Ws0, Lit("3"), WordB>>,
              <<G(1), L(<<"^","3">>)>>)>>

_convert_exponents_subscripts(text) ==
    ApplyRules(EXPONENT_RULES, 1, text)

SqrtCmd ==
    <<BS,"s","q","r","t">>

\* the substitutions of _convert_roots, in order
ROOT_RULES ==
    <<SubRule(<<Lit("u221A"), Ws0, Plus(AlNum, 1)>>,
              <<L(SqrtCmd \o <<"{">>), G(1), L(<<"}">>)>>),
      SubRule(Lits(<<"s","q","r","t">>) \o <<Ws0, Lit("("), PlusNot({")"}, 1), Lit(")")>>,
              <<L(SqrtCmd \o <<"{">>), G(1), L(<<"}">>)>>),
      SubRule(<<Plus(Digits, 1)>> \o Lits(<<"t","h">>) \o <<Ws1>>
              \o Lits(<<"r","o","o","t">>) \o <<Ws1>> \o Lits(<<"o","f">>)
              \o <<Ws1, Plus(AlNum, 2)>>,
              <<L(SqrtCmd \o <<"[">>), G(1), L(<<"]","{">>), G(2), L(<<"}">>)>>)>>

_convert_roots(text) ==
    ApplyRules(ROOT_RULES, 1, text)

IntCmd ==
    <<BS,"i","n","t">>

SumCmd ==
    <<BS,"s","u","m">>

\* the replacements and substitutions of _convert_integrals_sums, in order
INTEGRAL_SUM_RULES ==
    <<ReplaceRule(<<"u222B">>, IntCmd),
      SubRule(Lits(<<"i","n","t","e","g","r","a","l">>) \o <<Ws1>>
              \o Lits(<<"f","r","o","m">>) \o <<Ws1, Plus(AlNum, 1), Ws1>>
              \o Lits(<<"t","o">>) \o <<Ws1, Plus(AlNum, 2)>>,
              <<L(IntCmd \o <<"_","{">>), G(1), L(<<"}","^","{">>), G(2), L(<<"}">>)>>),
      ReplaceRule(<<"u03A3">>, SumCmd),
      SubRule(Lits(<<"s","u","m">>) \o <<Ws1>> \o Lits(<<"f","r","o","m">>)
              \o <<Ws1, Plus(AlNum, 1), Ws0, Lit("="), Ws0, Plus(AlNum, 2), Ws1>>
              \o Lits(<<"t","o">>) \o <<Ws1, Plus(AlNum, 3)>>,
              <<L(SumCmd \o <<"_","{">>), G(1), L(<<"=">>), G(2), L(<<"}","^","{">>),
                G(3), L(<<"}">>)>>),
      ReplaceRule(<<"u220F">>, <<BS,"p","r","o","d">>)>>

_convert_integrals_sums(text) ==
    ApplyRules(INTEGRAL_SUM_RULES, 1, text)

\* ' \\\\ '.join(content.split(sep))
JoinRows(content, sep) ==
    Replace(content, <<sep>>, <<" ", BS, BS, " ">>)

\* matrix_replacer applied to a match whose group 1 is content
MatrixReplacement(whole, content) ==
    IF Contains(content, <<";">>) \/ Contains(content, <<"\n">>)
    THEN <<BS,"b","e","g","i","n","{","b","m","a","t","r","i","x","}"," ">>
         \o JoinRows(content, IF Contains(content, <<";">>) THEN ";" ELSE "\n")
         \o <<" ",BS,"e","n","d","{","b","m","a","t","r","i","x","}">>
    ELSE whole

MatrixPat ==
    <<Lit("["), Ws0, PlusNot({"]"}, 1), Ws0, Lit("]")>>

RECURSIVE MatricesFrom(_, _, _)
MatricesFrom(text, oks, pos) ==
    Let(NextMatch(MatrixPat, text, oks, pos), LAMBDA m :
        IF m.p = 0 THEN SubSeq(text, pos, Len(text))
        ELSE SubSeq(text, pos, m.p - 1)
             \o MatrixReplacement(SubSeq(text, m.p, m.ends[5] - 1),
                                  Group(MatrixPat, text, m.p, m.ends, 1))
             \o MatricesFrom(text, oks, m.ends[5]))

\* re.sub(r'\[\s*([^\]]+)\s*\]', matrix_replacer, text)
_convert_matrices(text) ==
    Let(text, LAMBDA t :
    Let(OkFrom(MatrixPat, t, 1), LAMBDA oks : MatricesFrom(t, oks, 1)))

\* the substitutions and replacements of _convert_probability, in order
PROBABILITY_RULES ==
    <<SubRule(<<Lit("P"), Ws0, Lit("("), PlusNot({")"}, 1), Lit(")")>>,
              <<L(<<"P","(">>), G(1), L(<<")">>)>>),
      SubRule(<<Lit("P"), Ws0, Lit("("), PlusNot({"|"}, 1), Ws0, Lit("|"), Ws0,
                PlusNot({")"}, 2), Lit(")")>>,
              <<L(<<"P","(">>), G(1), L(<<" ",BS,"m","i","d"," ">>), G(2), L(<<")">>)>>),
      SubRule(<<Lit("E"), Ws0, Lit("["), PlusNot({"]"}, 1), Lit("]")>>,
              <<L(<<BS,"m","a","t","h","b","b","{","E","}","[">>), G(1), L(<<"]">>)>>),
      SubRule(Lits(<<"V","a","r">>) \o <<Ws0, Lit("("), PlusNot({")"}, 1), Lit(")")>>,
              <<L(<<BS,"t","e","x","t","{","V","a","r","}","(">>), G(1), L(<<")">>)>>),
      SubRule(<<Lit("C"), Ws0, Lit("("), Ws0, Plus(AlNum, 1), Ws0, Lit(","), Ws0,
                Plus(AlNum, 2), Ws0, Lit(")")>>,
              <<L(<<BS,"b","i","n","o","m","{">>), G(1), L(<<"}","{">>), G(2), L(<<"}">>)>>),
      ReplaceRule(<<"n","C","r">>, <<BS,"b","i","n","o","m","{","n","}","{","r","}">>),
      ReplaceRule(<<"n","P","r">>, <<"P","_","n","^","r">>)>>

_convert_probability(text) ==
    ApplyRules(PROBABILITY_RULES, 1, text)

_convert_math_expressions(text) ==
    Let(_convert_fractions(text), LAMBDA t1 :
    Let(_convert_exponents_subscripts(t1), LAMBDA t2 :
    Let(_convert_roots(t2), LAMBDA t3 :
    Let(_convert_integrals_sums(t3), LAMBDA t4 :
    Let(_convert_matrices(t4), LAMBDA t5 :
        _convert_probability(t5))))))

\* MATH_SYMBOLS (core/constants.py), in the dictionary's order
MATH_SYMBOLS ==
    << <<"u03B1", <<BS,"a","l","p","h","a">> >>,
       <<"u03B2", <<BS,"b","e","t","a">> >>,
       <<"u03B3", <<BS,"g","a","m","m","a">> >>,
       <<"u03B4", <<BS,"d","e","l","t","a">> >>,
       <<"u03B8", <<BS,"t","h","e","t","a">> >>,
       <<"u03BB", <<BS,"l","a","m","b","d","a">> >>,
       <<"u03BC", <<BS,"m","u">> >>,
       <<"u03C3", <<BS,"s","i","g","m","a">> >>,
       <<"u03C6", <<BS,"p","h","i">> >>,
       <<"u03C9", <<BS,"o","m","e","g","a">> >>,
       <<"u03A3", SumCmd>>,
       <<"u222B", IntCmd>>,
       <<"u221E", <<BS,"i","n","f","t","y">> >>,
       <<"u221A", SqrtCmd>>,
       <<"u2264", <<BS,"l","e","q">> >>,
       <<"u2265", <<BS,"g","e","q">> >>,
       <<"u2260", <<BS,"n","e","q">> >>,
       <<"u2248", <<BS,"a","p","p","r","o","x">> >>,
       <<"u2208", <<BS,"i","n">> >>,
       <<"u2209", <<BS,"n","o","t","i","n">> >>,
       <<"u2282", <<BS,"s","u","b","s","e","t">> >>,
       <<"u2283", <<BS,"s","u","p","s","e","t">> >>,
       <<"u222A", <<BS,"c","u","p">> >>,
       <<"u2229", <<BS,"c","a","p">> >>,
       <<"u2200", <<BS,"f","o","r","a","l","l">> >>,
       <<"u2203", <<BS,"e","x","i","s","t","s">> >> >>

\* the replacement of one character by the loop over MATH_SYMBOLS
SymbolOf(c) ==
    IF \E i \in 1..Len(MATH_SYMBOLS) : MATH_SYMBOLS[i][1] = c
    THEN MATH_SYMBOLS[CHOOSE i \in 1..Len(MATH_SYMBOLS) : MATH_SYMBOLS[i][1] = c][2]
    ELSE <<c>>

\* for symbol, latex in MATH_SYMBOLS.items(): text = text.replace(symbol, latex)
\* (every symbol is one character and no replacement contains a symbol, so
\* the successive replacements amount to one pass over the characters)
_convert_special_characters(text) ==
    Let(text, LAMBDA t : Flatten([i \in 1..Len(t) |-> SymbolOf(t[i])]))

\* LATEX_DELIMITERS (core/constants.py)
LATEX_DELIMITERS ==
    [inline |-> << <<"$">>, <<"$">> >>,
     display |-> << <<"$","$">>, <<"$","$">> >>,
     equation |-> << <<BS,"b","e","g","i","n","{","e","q","u","a","t","i","o","n","}">>,
                     <<BS,"e","n","d","{","e","q","u","a","t","i","o","n","}">> >>,
     align |-> << <<BS,"b","e","g","i","n","{","a","l","i","g","n","}">>,
                  <<BS,"e","n","d","{","a","l","i","g","n","}">> >>]

_apply_math_mode(text, mode) ==
    IF mode \in DOMAIN LATEX_DELIMITERS
    THEN IF ~StartsWith(text, LATEX_DELIMITERS[mode][1])
         THEN LATEX_DELIMITERS[mode][1] \o text \o LATEX_DELIMITERS[mode][2]
         ELSE text
    ELSE text

RECURSIVE RestoreLoop(_, _, _)
RestoreLoop(text, cmds, i) ==
    IF i > Len(cmds) THEN text
    ELSE Let(<<Replace(text, Placeholder(i - 1), cmds[i]), i + 1>>,
             LAMBDA a : RestoreLoop(a[1], cmds, a[2]))

\* _format_for_document reading self._protected_commands = cmds
_format_for_document(text, cmds) ==
    Let(<<text, cmds>>, LAMBDA a :
        Replace(RestoreLoop(a[1], a[2], 1), <<"\n","\n">>,
                <<"\n",BS,"m","e","d","s","k","i","p","\n">>))

\* convert(text, math_mode) run with no other call in between
convert(text, math_mode) ==
    Let(text, LAMBDA t0 :
    Let(_protect_existing_latex(t0), LAMBDA t1 :
    Let(_convert_math_expressions(t1), LAMBDA t2 :
    Let(_convert_special_characters(t2), LAMBDA t3 :
    Let(_apply_math_mode(t3, math_mode), LAMBDA t4 :
        _format_for_document(t4, FindCommands(t0)))))))

(***************************************************************************)
(* Text helpers of the service clients and the retriever.                  *)
(***************************************************************************)
\* str.lower() of one character (ASCII)
LowerChar(c) ==
    IF c \in Upper THEN LowerSeq[CHOOSE i \in 1..Len(UpperSeq) : UpperSeq[i] = c] ELSE c

\* str.lower()
ToLower(text) ==
    [i \in 1..Len(text) |-> LowerChar(text[i])]

RECURSIVE SplitFrom(_, _, _)
SplitFrom(text, sep, pos) ==
    Let(Find(text, <<sep>>, pos), LAMBDA p :
        IF p = 0 THEN <<SubSeq(text, pos, Len(text))>>
        ELSE <<SubSeq(text, pos, p - 1)>>
             \o Let(p + 1, LAMBDA q : SplitFrom(text, sep, q)))

\* str.split(sep) for a one-character sep
Split(text, sep) ==
    Let(text, LAMBDA t : SplitFrom(t, sep, 1))

\* sep.join(parts)
Join(parts, sep) ==
    Let(parts \o <<>>, LAMBDA ps :
        Flatten([i \in 1..Len(ps) |-> IF i = 1 THEN ps[i] ELSE <<sep>> \o ps[i]]))

\* str.strip()
Strip(text) ==
    Let(text, LAMBDA t :
    Let(Eager({i \in 1..Len(t) : t[i] \notin Space}), LAMBDA keep :
        IF keep = {} THEN <<>> ELSE SubSeq(t, MinOf(keep), MaxOf(keep))))

(***************************************************************************)
(* The service clients (rag/embeddings.py, llm/gemini_client.py).  The     *)
(* remote service is the environment: fails is the number of attempts of *)
(* a call, in a row, that it makes fail, and the value it answers with is  *)
(* an input of the call.                                                   *)
(***************************************************************************)
\* stop_after_attempt(3) of the @retry decorators
STOP_AFTER_ATTEMPT ==
    3

\* np.zeros(768): an embedding is one integer coordinate here, the zero
\* vector is 0 and the service answers with a nonzero one
ZeroVector ==
    0

\* a value that was never returned (the call raised)
NoVector ==
    0 - 1

\* @retry(stop=stop_after_attempt(stop)) around a call that fails fails
\* times in a row: the attempts made, and whether the last one succeeded
\* (if not, tenacity raises RetryError)
Retry(stop, fails) ==
    [attempts |-> IF fails < stop THEN fails + 1 ELSE stop, ok |-> fails < stop]

\* a call that is made once, with no decorator
Once(fails) ==
    [attempts |-> 1, ok |-> fails = 0]

generate_embedding(text, fails, vec) ==
    LET r == Retry(STOP_AFTER_ATTEMPT, fails)
    IN  [site |-> "generate_embedding", attempts |-> r.attempts, raised |-> ~r.ok,
         vec |-> IF r.ok THEN vec ELSE NoVector]

generate_query_embedding(query, fails, vec) ==
    LET r == Once(fails)
    IN  [site |-> "generate_query_embedding", attempts |-> r.attempts, raised |-> ~r.ok,
         vec |-> IF r.ok THEN vec ELSE NoVector]

generate_response(prompt, fails, response) ==
    LET r == Retry(STOP_AFTER_ATTEMPT, fails)
    IN  [site |-> "generate_response", attempts |-> r.attempts, raised |-> ~r.ok,
         text |-> IF r.ok THEN response ELSE <<>>]

\* the embeddings list after the loop over texts[1..n]; fails[i] and vecs[i]
\* are the service's behaviour at the call for texts[i]
RECURSIVE BatchEmbedLoop(_, _, _, _)
BatchEmbedLoop(texts, fails, vecs, n) ==
    IF n = 0 THEN <<>>
    ELSE LET e == generate_embedding(texts[n], fails[n], vecs[n])
         IN  BatchEmbedLoop(texts, fails, vecs, n - 1)
             \o <<IF e.raised THEN ZeroVector ELSE e.vec>>

\* a batch that leaves out the items whose call raised
DroppingBatchEmbeddings(texts, fails, vecs) ==
    LET kept == SelectSeq([i \in 1..Len(texts) |-> i],
                          LAMBDA i : fails[i] < STOP_AFTER_ATTEMPT)
    IN  [k \in 1..Len(kept) |-> vecs[kept[k]]]

generate_batch_embeddings(texts, fails, vecs) ==
    BatchEmbedLoop(texts, fails, vecs, Len(texts))

\* the phrases that make parse_latex drop a line
ExplanationPhrases ==
    {<<"h","e","r","e"," ","i","s">>, <<"t","h","i","s"," ","i","s">>, <<"t","h","e"," ","l","a","t","e","x">>, <<"c","o","n","v","e","r","t","e","d">>}

IsExplanation(line) ==
    Let(ToLower(line), LAMBDA low : \E ph \in ExplanationPhrases : Contains(low, ph))

\* ResponseParser.parse_latex
parse_latex(response) ==
    Let(Sub(Lits(<<"u0060","u0060","u0060","l","a","t","e","x">>)
            \o <<Rep(Only({"\n"}), 0, 1, 0)>>, <<>>, response), LAMBDA t1 :
    Let(Sub(Lits(<<"u0060","u0060","u0060">>) \o <<Rep(Only({"\n"}), 0, 1, 0)>>,
            <<>>, t1), LAMBDA t2 :
        Strip(Join(SelectSeq(Split(t2, "\n"), LAMBDA line : ~IsExplanation(line)),
                   "\n"))))

\* valid_types of parse_question_type, in order
VALID_TYPES ==
    <<<<"i","l","l","u","s","t","r","a","t","i","o","n">>, <<"e","x","a","m","p","l","e">>, <<"e","x","e","r","c","i","s","e">>, <<"o","b","j","e","c","t","i","v","e">>, <<"s","u","b","j","e","c","t","i","v","e">>>>

\* ResponseParser.parse_question_type
parse_question_type(response) ==
    Let(ToLower(Strip(response)), LAMBDA r :
    Let(Eager({i \in 1..Len(VALID_TYPES) : Contains(r, VALID_TYPES[i])}), LAMBDA hit :
        IF hit = {} THEN <<"u","n","k","n","o","w","n">> ELSE VALID_TYPES[MinOf(hit)]))

\* what the generative service may answer when asked for a markup: a
\* fenced "$x$", and a sentence that parse_latex drops whole
LatexResponses ==
    {<<"u0060","u0060","u0060","l","a","t","e","x","\n","$","x","$","\n","u0060","u0060","u0060">>,
     <<"H","e","r","e"," ","i","s"," ","x">>}

\* what the generative service may answer
Responses ==
    LatexResponses \cup {<<"E","x","e","r","c","i","s","e"," ","1">>}

\* parse_latex and parse_question_type of each of Responses, computed once
PARSED ==
    {<<r, parse_latex(r), parse_question_type(r)>> : r \in Responses}

\* self.parser.parse_latex(response)
ParsedLatex(response) ==
    IF \E p \in PARSED : p[1] = response
    THEN (CHOOSE p \in PARSED : p[1] = response)[2]
    ELSE parse_latex(response)

\* self.parser.parse_question_type(response)
ParsedType(response) ==
    IF \E p \in PARSED : p[1] = response
    THEN (CHOOSE p \in PARSED : p[1] = response)[3]
    ELSE parse_question_type(response)

\* GeminiClient.convert_to_latex: the prompt embeds the text; the result is
\* the parsed response, or the call raises
convert_to_latex(text, fails, response) ==
    LET r == generate_response(text, fails, response)
    IN  [attempts |-> r.attempts, raised |-> r.raised,
         val |-> IF r.raised THEN <<>> ELSE ParsedLatex(r.text)]

\* GeminiClient.identify_question_type
identify_question_type(text, fails, response) ==
    LET r == generate_response(text, fails, response)
    IN  [attempts |-> r.attempts, raised |-> r.raised,
         val |-> IF r.raised THEN <<>> ELSE ParsedType(r.text)]

\* GeminiClient.extract_questions.  parse_questions (a JSON parse of the
\* response) is not modelled: `response` stands for the list it returns,
\* written as a text
extract_questions(text, fails, response) ==
    LET r == generate_response(text, fails, response)
    IN  [attempts |-> r.attempts, raised |-> r.raised,
         val |-> IF r.raised THEN <<>> ELSE r.text]

\* one iteration of batch_process: the value appended to results
\* (none: the Python None)
BatchItem(text, operation, fails, response) ==
    IF operation \notin {"extract", "latex", "type"} THEN [none |-> TRUE, val |-> <<>>]
    ELSE Let(IF operation = "extract" THEN extract_questions(text, fails, response)
             ELSE IF operation = "latex" THEN convert_to_latex(text, fails, response)
             ELSE identify_question_type(text, fails, response),
             LAMBDA r : IF r.raised THEN [none |-> TRUE, val |-> <<>>]
                        ELSE [none |-> FALSE, val |-> r.val])

RECURSIVE BatchProcessLoop(_, _, _, _, _)
BatchProcessLoop(texts, operation, fails, responses, n) ==
    IF n = 0 THEN <<>>
    ELSE BatchProcessLoop(texts, operation, fails, responses, n - 1)
         \o <<BatchItem(texts[n], operation, fails[n], responses[n])>>

\* a batch that stops working at the first item whose call raised
AbortingBatchProcess(texts, operation, fails, responses) ==
    [i \in 1..Len(texts) |->
        IF \E j \in 1..(i - 1) :
               BatchItem(texts[j], operation, fails[j], responses[j]).none
        THEN [none |-> TRUE, val |-> <<>>]
        ELSE BatchItem(texts[i], operation, fails[i], responses[i])]

\* GeminiClient.batch_process
batch_process(texts, operation, fails, responses) ==
    BatchProcessLoop(texts, operation, fails, responses, Len(texts))

(***************************************************************************)
(* State.  The pipeline, the service clients, the converter and the        *)
(* retriever are exercised by separate specifications over one set of      *)
(* variables; each specification leaves the others' variables alone.       *)
(***************************************************************************)
VARIABLES
    collection,           \* VectorStore.collection: the persisted entries
    pc,                   \* position of the process_pdf call
    chapter,              \* process_pdf argument
    topic,                \* process_pdf argument
    pdf_content,          \* pages returned by extract_chapter_topic
    page_i,               \* index of the next page / question of the loops
    all_questions,        \* process_pdf local
    latex_questions,      \* _convert_questions_to_latex local
    result,               \* what the last process_pdf call returned
    runs,                 \* process_pdf calls started
    indexed,              \* the arguments of the last add made by _index_questions
    call,                 \* the last single service call
    embBatch,             \* the last generate_batch_embeddings call
    procBatch,            \* the last batch_process call
    _protected_commands,  \* LaTeXConverter._protected_commands
    thread,               \* the convert calls in progress on one converter
    retrieval,            \* the last Retriever.retrieve call
    segmentation,         \* the last QuestionExtractor.extract call
    validation,           \* the last Validator.validate_latex call
    report,               \* the last validate_question / validate_batch call
    conversion,           \* the last convert call and convert of its output
    extraction,           \* the last PDFExtractor.extract_chapter_topic call
    chunking              \* the chunk_text call in progress

vars ==
    <<collection, pc, chapter, topic, pdf_content, page_i, all_questions,
      latex_questions, result, runs, indexed, call, embBatch, procBatch,
      _protected_commands, thread, retrieval, segmentation, validation,
      report, conversion, extraction, chunking>>

pipelineVars ==
    <<collection, pc, chapter, topic, pdf_content, page_i, all_questions,
      latex_questions, result, runs, indexed>>

serviceVars ==
    <<call, embBatch, procBatch>>

convVars ==
    <<_protected_commands, thread>>

toolVars ==
    <<segmentation, validation, report, conversion, extraction, chunking>>

(***************************************************************************)
(* Bounds.                                                                 *)
(***************************************************************************)
\* attempts in a row the service may fail (STOP_AFTER_ATTEMPT = every one)
MaxFails ==
    3

\* longest batch
MaxBatch ==
    3

\* embeddings the service answers with are 1..MaxEmb
MaxEmb ==
    2

Embeddings ==
    1..MaxEmb

NoCall ==
    [site |-> "none", attempts |-> 0, raised |-> FALSE]

NoEmbBatch ==
    [done |-> FALSE, texts |-> <<>>, fails |-> <<>>, vecs |-> <<>>, out |-> <<>>]

NoProcBatch ==
    [done |-> FALSE, operation |-> "none", texts |-> <<>>, fails |-> <<>>,
     responses |-> <<>>, out |-> <<>>]

ServiceIdle ==
    /\ call = NoCall
    /\ embBatch = NoEmbBatch
    /\ procBatch = NoProcBatch

\* the operation argument of batch_process; "other" is none of the three
Operations ==
    {"extract", "latex", "type", "other"}

\* the texts of a batch of n items: a text is opaque to the clients, item i
\* is the text i
TextsOf(n) ==
    [i \in 1..n |-> i]


(***************************************************************************)
(* The pipeline (rag/rag_pipeline.py) and the store behind it.             *)
(*                                                                         *)
(* A page text is a sequence of blocks: blank space, prose, or a question  *)
(* as QuestionExtractor returns it for the block.  The questions below are *)
(* what the extractor returns for "1. Find 1/2" and "Example 2: x^2 = 4?"  *)
(* after TextProcessor.preprocess; confidence is in tenths.                *)
(***************************************************************************)
\* process_pdf calls
MaxRuns ==
    2

\* pages of a topic
MaxPages ==
    2

\* Question.number when the block has no number (the Python None)
NoNumber ==
    "None"

NoQuestion ==
    [text |-> <<>>, question_type |-> "none", number |-> NoNumber,
     page_number |-> 0, confidence |-> 0]

Q_FIND ==
    [text |-> <<"1","."," ","F","i","n","d"," ","\\","f","r","a","c","{","1","}","{","2","}">>,
     question_type |-> "practice", number |-> "1", page_number |-> 0, confidence |-> 8]

Q_EXAMPLE ==
    [text |-> <<"E","x","a","m","p","l","e"," ","2",":"," ","x","^","{","2","}"," ","="," ","4","?">>,
     question_type |-> "example", number |-> NoNumber, page_number |-> 0, confidence |-> 8]

Blank ==
    [kind |-> "blank", q |-> NoQuestion]

Prose ==
    [kind |-> "prose", q |-> NoQuestion]

QuestionBlock(q) ==
    [kind |-> "question", q |-> q]

\* the texts a page may hold
PageTexts ==
    {<<Blank>>, <<Prose>>, <<Blank, QuestionBlock(Q_FIND)>>,
     <<QuestionBlock(Q_EXAMPLE), Prose>>}

\* how the service treats a call of the pipeline: it answers the first
\* attempt, or it fails every attempt (the attempts in between do not show
\* in the pipeline's state)
FailModes ==
    {0, STOP_AFTER_ATTEMPT}

\* the (chapter, topic) arguments
ChapterTopics ==
    {<<30, "30.3">>}

\* TextProcessor.preprocess, as far as blocks show it: the closing
\* text.strip() removes the blank space at both ends
preprocess(text) ==
    LET keep == {i \in 1..Len(text) : text[i].kind # "blank"}
    IN  IF keep = {} THEN <<>> ELSE SubSeq(text, MinOf(keep), MaxOf(keep))

\* a source test that every value passes
AcceptEverySource(source) ==
    TRUE

\* BaseExtractor/QuestionExtractor.validate_source
validate_source(source) ==
    source # <<>>

RECURSIVE QuestionsOf(_)
QuestionsOf(text) ==
    IF text = <<>> THEN <<>>
    ELSE (IF Head(text).kind = "question" THEN <<Head(text).q>> ELSE <<>>)
         \o QuestionsOf(Tail(text))

\* QuestionExtractor.extract: the questions of the text, or ExtractionError
extract(source) ==
    IF ~validate_source(source) THEN [raised |-> TRUE, questions |-> <<>>]
    ELSE [raised |-> FALSE, questions |-> QuestionsOf(source)]

\* PDFExtractor.extract_chapter_topic: the pages of the topic, numbered in
\* order; the first one holds the topic's heading, so it is not blank
PdfContents ==
    {<<>>} \cup
    UNION {{[i \in 1..n |-> [page_number |-> i, text |-> f[i]]] :
              f \in {g \in [1..n -> PageTexts] : validate_source(preprocess(g[1]))}} :
           n \in 1..MaxPages}

\* "for q in questions: q.page_number = page['page_number']"
WithPage(questions, page_number) ==
    [i \in 1..Len(questions) |-> [questions[i] EXCEPT !.page_number = page_number]]

\* a dict that does not carry the number of the Question
UnnumberedLatexQuestion(question, latex_text) ==
    [original_text |-> question.text, latex |-> latex_text,
     question_type |-> question.question_type, number |-> NoNumber,
     page_number |-> question.page_number, confidence |-> question.confidence]

\* the dict appended by _convert_questions_to_latex
LatexQuestion(question, latex_text) ==
    [original_text |-> question.text, latex |-> latex_text,
     question_type |-> question.question_type, number |-> question.number,
     page_number |-> question.page_number, confidence |-> question.confidence]

\* the questions the pages of this specification hold
Questions ==
    {Q_FIND, Q_EXAMPLE}

\* self.latex_converter.convert(question.text) for each of Questions,
\* computed once
INLINE ==
    {<<q.text, convert(q.text, "inline")>> : q \in Questions}

\* one iteration of _convert_questions_to_latex
ConvertOne(question, fails, response) ==
    Let(convert_to_latex(question.text, fails, response), LAMBDA r :
        IF r.raised THEN [raised |-> TRUE, item |-> LatexQuestion(NoQuestion, <<>>)]
        ELSE [raised |-> FALSE,
              item |-> LatexQuestion(question,
                                     IF r.val = <<>>
                                     THEN (CHOOSE p \in INLINE : p[1] = question.text)[2]
                                     ELSE r.val)])

\* doc_text of _index_questions
DocText(question) ==
    question.original_text \o <<"\n","\n","L","a","T","e","X",":"," ">> \o question.latex

\* metadata of _index_questions
Metadata(question, ch, tp) ==
    [chapter |-> ch, topic |-> tp, question_type |-> question.question_type,
     page_number |-> question.page_number, question_number |-> question.number,
     confidence |-> question.confidence]

\* f"doc_{i}"
DocId(i) ==
    <<"d","o","c","_">> \o DecStr(i)

\* the ids VectorStore.add_documents gives when none are passed
DefaultIds(documents) ==
    [i \in 1..Len(documents) |-> DocId(i - 1)]

IdsOf(coll) ==
    {coll[i].id : i \in 1..Len(coll)}

\* collection.add of the underlying store: an entry whose id is already
\* present is left as it is and the new one is dropped
RECURSIVE CollectionAdd(_, _, _, _, _, _)
CollectionAdd(coll, documents, embeddings, metadatas, ids, n) ==
    IF n = 0 THEN coll
    ELSE Let(CollectionAdd(coll, documents, embeddings, metadatas, ids, n - 1),
             LAMBDA c :
                 IF ids[n] \in IdsOf(c) THEN c
                 ELSE Append(c, [id |-> ids[n], document |-> documents[n],
                                 embedding |-> embeddings[n], metadata |-> metadatas[n]]))

\* VectorStore.add_documents with ids = None
add_documents(coll, documents, embeddings, metadatas) ==
    CollectionAdd(coll, documents, embeddings, metadatas, DefaultIds(documents),
                  Len(documents))

\* Retriever.add_documents_to_index
add_documents_to_index(coll, documents, metadatas, fails, vecs) ==
    add_documents(coll, documents, generate_batch_embeddings(documents, fails, vecs),
                  metadatas)

\* the store's own checks on collection.add depend on its version: an
\* empty batch and a None metadata value are refused by some
MayReject(documents, metadatas) ==
    \/ documents = <<>>
    \/ \E i \in 1..Len(metadatas) : metadatas[i].question_number = NoNumber

NoResult ==
    [state |-> "none", error |-> "", questions |-> <<>>, total_questions |-> 0]

Raised(error) ==
    [state |-> "raised", error |-> error, questions |-> <<>>, total_questions |-> 0]

Returned(questions) ==
    [state |-> "returned", error |-> "", questions |-> questions,
     total_questions |-> Len(questions)]

NoIndexed ==
    [documents |-> <<>>, metadatas |-> <<>>]

PipelineIdle ==
    /\ collection = <<>>
    /\ pc = "idle"
    /\ chapter = 0
    /\ topic = ""
    /\ pdf_content = <<>>
    /\ page_i = 0
    /\ all_questions = <<>>
    /\ latex_questions = <<>>
    /\ result = NoResult
    /\ runs = 0
    /\ indexed = NoIndexed

(***************************************************************************)
(* Two convert calls in progress on one LaTeXConverter.  A step of a call  *)
(* is one of the five methods convert runs in turn; the instance attribute *)
(* _protected_commands is written by the first and read by the last.       *)
(***************************************************************************)
Threads ==
    {1, 2}

\* the texts given to convert
ConvInputs ==
    {<<"\\","a","l","p","h","a"," ","x">>, <<"x","^","2">>, <<"\\","f","r","a","c","{","1","}","{","2","}"," ","\\","p","i">>}

\* the math_mode arguments
ConvModes ==
    {"inline", "display"}

IdleThread ==
    [pc |-> "idle", input |-> <<>>, math_mode |-> "inline", text |-> <<>>, out |-> <<>>]

ConvIdle ==
    /\ _protected_commands = <<>>
    /\ thread = [t \in Threads |-> IdleThread]

(***************************************************************************)
(* Retrieval (rag/retriever.py, rag/vector_store.py).  A distance is the   *)
(* squared difference of two embeddings; a score is an exact fraction.     *)
(***************************************************************************)
NoSegmentation ==
    [state |-> "none", source |-> [type |-> "str", value |-> <<>>], blocks |-> <<>>,
     questions |-> <<>>]

NoValidation ==
    [state |-> "none", text |-> <<>>, latex |-> <<>>, errors |-> <<>>]

NoReport ==
    [state |-> "none"]

NoConversion ==
    [state |-> "none", text |-> <<>>, math_mode |-> "none", out |-> <<>>, again |-> <<>>]

NoExtraction ==
    [state |-> "none", pages |-> <<>>, chapter |-> 0, topic |-> <<>>, topic_pages |-> <<>>]

NoChunking ==
    [pc |-> "idle", text |-> <<>>, chunk_size |-> 0, overlap |-> 0, start |-> 0,
     chunks |-> <<>>]

ToolIdle ==
    /\ segmentation = NoSegmentation
    /\ validation = NoValidation
    /\ report = NoReport
    /\ conversion = NoConversion
    /\ extraction = NoExtraction
    /\ chunking = NoChunking

NoRetrieval ==
    [state |-> "none", query |-> <<>>, found |-> <<>>, results |-> <<>>]

RetrieveIdle ==
    retrieval = NoRetrieval

\* most documents in the index of the retrieval specification
MaxDocs ==
    2

\* n_results of retrieve when the caller passes none
N_RESULTS ==
    5

\* the documents given to add_documents_to_index
RetrieveDocs ==
    {<<"F","i","n","d"," ","x">>, <<"f","i","n","d"," ","y">>,
     <<"S","u","m"," "," ","x"," ","y">>}

\* the queries given to retrieve; the last two have no words
Queries ==
    {<<"f","i","n","d"," ","x">>, <<"X"," ","y">>, <<" ">>, <<>>}

\* set(text.lower().split()): the maximal runs of non-blank characters
Words(text) ==
    Let(ToLower(text), LAMBDA t :
        {SubSeq(t, p[1], p[2]) :
            p \in {r \in (1..Len(t)) \X (1..Len(t)) :
                     /\ r[1] <= r[2]
                     /\ \A k \in r[1]..r[2] : t[k] \notin Space
                     /\ r[1] = 1 \/ t[r[1] - 1] \in Space
                     /\ r[2] = Len(t) \/ t[r[2] + 1] \in Space}})

\* the distance the store reports (squared l2, its default)
Distance(embedding, query_embedding) ==
    (embedding - query_embedding) * (embedding - query_embedding)

\* one formatted result of VectorStore.search
Formatted(entry, query_embedding) ==
    [document |-> entry.document, metadata |-> entry.metadata,
     distance |-> Distance(entry.embedding, query_embedding), id |-> entry.id]

\* VectorStore.search: the n_results nearest entries, or all of them if
\* there are fewer, nearest first; entries at the same distance come in
\* any order
search(coll, query_embedding, n_results) ==
    Let(IF n_results < Len(coll) THEN n_results ELSE Len(coll), LAMBDA k :
        {[i \in 1..k |-> Formatted(coll[f[i]], query_embedding)] :
            f \in {g \in [1..k -> 1..Len(coll)] :
                     /\ \A i, j \in 1..k : i < j =>
                            /\ g[i] # g[j]
                            /\ Distance(coll[g[i]].embedding, query_embedding)
                                 <= Distance(coll[g[j]].embedding, query_embedding)
                     /\ \A i \in 1..k, e \in 1..Len(coll) :
                            (\A j \in 1..k : g[j] # e) =>
                                Distance(coll[g[i]].embedding, query_embedding)
                                  <= Distance(coll[e].embedding, query_embedding)}})

\* len(query_words & doc_words)
Overlap(query, document) ==
    Cardinality(Words(query) \cap Words(document))

\* the keyword score without the test for a query of no words: a division
\* by len(query_words) whatever it is
UnguardedKeywordScore(query, document) ==
    [num |-> Overlap(query, document), den |-> Cardinality(Words(query))]

\* keyword_score = overlap / len(query_words) if query_words else 0, as a
\* fraction
KeywordScore(query, document) ==
    IF Words(query) = {} THEN [num |-> 0, den |-> 1]
    ELSE [num |-> Overlap(query, document), den |-> Cardinality(Words(query))]

\* combined_score = 0.7 * (1 / (1 + distance)) + 0.3 * keyword_score, as a
\* fraction
CombinedScore(distance, keyword_score) ==
    [num |-> 7 * keyword_score.den + 3 * keyword_score.num * (1 + distance),
     den |-> 10 * (1 + distance) * keyword_score.den]

\* a >= b for fractions with positive denominators
Geq(a, b) ==
    a.num * b.den >= b.num * a.den

\* the two loops of _rerank_results that set the scores of each result
Scored(query, results) ==
    [i \in 1..Len(results) |->
        Let(KeywordScore(query, results[i].document), LAMBDA keyword_score :
            [document |-> results[i].document, metadata |-> results[i].metadata,
             distance |-> results[i].distance, id |-> results[i].id,
             keyword_score |-> keyword_score,
             combined_score |-> CombinedScore(results[i].distance, keyword_score)])]

RECURSIVE SortLoop(_, _)
\* list.sort(key = combined_score, reverse = True) of the first n results:
\* stable, results of equal score keep their order
SortLoop(results, n) ==
    IF n = 0 THEN <<>>
    ELSE Let(SortLoop(results, n - 1), LAMBDA sorted :
         Let(Cardinality({i \in 1..Len(sorted) :
                            Geq(sorted[i].combined_score, results[n].combined_score)}),
             LAMBDA p : SubSeq(sorted, 1, p) \o <<results[n]>>
                        \o SubSeq(sorted, p + 1, Len(sorted))))

\* a reranking that leaves the keyword score out of the order
RerankByVectorScore(query, results) ==
    Let(Scored(query, results) \o <<>>, LAMBDA scored :
        SortLoop([i \in 1..Len(scored) |->
                     [scored[i] EXCEPT !.combined_score =
                         CombinedScore(scored[i].distance, [num |-> 0, den |-> 1])]]
                 \o <<>>, Len(scored)))

RECURSIVE UnstableSortLoop(_, _)
\* a sort by descending combined score that puts a result before the
\* results of equal score that came earlier
UnstableSortLoop(results, n) ==
    IF n = 0 THEN <<>>
    ELSE Let(UnstableSortLoop(results, n - 1), LAMBDA sorted :
         Let(Cardinality({i \in 1..Len(sorted) :
                            ~Geq(results[n].combined_score, sorted[i].combined_score)}),
             LAMBDA p : SubSeq(sorted, 1, p) \o <<results[n]>>
                        \o SubSeq(sorted, p + 1, Len(sorted))))

\* a reranking whose sort is not stable
RerankUnstable(query, results) ==
    Let(Scored(query, results) \o <<>>, LAMBDA scored :
        UnstableSortLoop(scored, Len(scored)))

\* Retriever._rerank_results
_rerank_results(query, results) ==
    Let(Scored(query, results) \o <<>>, LAMBDA scored : SortLoop(scored, Len(scored)))

(***************************************************************************)
(* Specification of the service clients: single calls and batches.  The    *)
(* clients keep nothing from one call to the next, so a behaviour is one   *)
(* call.                                                                   *)
(***************************************************************************)
ServiceInit ==
    /\ PipelineIdle
    /\ ServiceIdle
    /\ ConvIdle
    /\ RetrieveIdle
    /\ ToolIdle

\* one call of generate_embedding
DocEmbed ==
    /\ ServiceIdle
    /\ \E fails \in 0..MaxFails, vec \in Embeddings :
           LET c == generate_embedding(1, fails, vec)
           IN  /\ call' = [site |-> c.site, attempts |-> c.attempts, raised |-> c.raised]
               /\ embBatch' = NoEmbBatch
               /\ procBatch' = NoProcBatch
               /\ UNCHANGED <<pipelineVars, convVars, retrieval, toolVars>>

\* one call of generate_query_embedding
QueryEmbed ==
    /\ ServiceIdle
    /\ \E fails \in 0..MaxFails, vec \in Embeddings :
           LET c == generate_query_embedding(1, fails, vec)
           IN  /\ call' = [site |-> c.site, attempts |-> c.attempts, raised |-> c.raised]
               /\ embBatch' = NoEmbBatch
               /\ procBatch' = NoProcBatch
               /\ UNCHANGED <<pipelineVars, convVars, retrieval, toolVars>>

\* one call of generate_response
GenResponse ==
    /\ ServiceIdle
    /\ \E fails \in 0..MaxFails, response \in Responses :
           LET c == generate_response(1, fails, response)
           IN  /\ call' = [site |-> c.site, attempts |-> c.attempts, raised |-> c.raised]
               /\ embBatch' = NoEmbBatch
               /\ procBatch' = NoProcBatch
               /\ UNCHANGED <<pipelineVars, convVars, retrieval, toolVars>>

\* one call of generate_batch_embeddings
BatchEmbed ==
    /\ ServiceIdle
    /\ \E n \in 0..MaxBatch :
           \E fails \in [1..n -> 0..MaxFails], vecs \in [1..n -> Embeddings] :
               /\ embBatch' = [done |-> TRUE, texts |-> TextsOf(n), fails |-> fails,
                               vecs |-> vecs,
                               out |-> generate_batch_embeddings(TextsOf(n), fails, vecs)]
               /\ call' = NoCall
               /\ procBatch' = NoProcBatch
               /\ UNCHANGED <<pipelineVars, convVars, retrieval, toolVars>>

\* one call of batch_process
BatchProcess ==
    /\ ServiceIdle
    /\ \E n \in 0..MaxBatch, operation \in Operations :
           \E fails \in [1..n -> 0..MaxFails], responses \in [1..n -> Responses] :
               /\ procBatch' = [done |-> TRUE, operation |-> operation,
                                texts |-> TextsOf(n), fails |-> fails,
                                responses |-> responses,
                                out |-> batch_process(TextsOf(n), operation, fails, responses)]
               /\ call' = NoCall
               /\ embBatch' = NoEmbBatch
               /\ UNCHANGED <<pipelineVars, convVars, retrieval, toolVars>>

ServiceNext ==
    \/ DocEmbed
    \/ QueryEmbed
    \/ GenResponse
    \/ BatchEmbed
    \/ BatchProcess

SpecService ==
    ServiceInit /\ [][ServiceNext]_vars

\* C4: generate_batch_embeddings on N texts returns exactly N vectors, one
\* per position: the zero vector where the item's call failed on every
\* attempt, and the service's own answer for that item everywhere else,
\* whatever happened to the items before and after it.
C4_BatchEmbeddingsAligned ==
    embBatch.done =>
        /\ Len(embBatch.out) = Len(embBatch.texts)
        /\ \A i \in 1..Len(embBatch.texts) :
               embBatch.out[i] = IF embBatch.fails[i] >= STOP_AFTER_ATTEMPT
                                 THEN ZeroVector
                                 ELSE embBatch.vecs[i]

\* a batch of three whose middle item failed on every attempt, between two
\* items that got their embeddings
C4_Witness ==
    /\ embBatch.done
    /\ Len(embBatch.texts) = 3
    /\ embBatch.fails[1] < STOP_AFTER_ATTEMPT
    /\ embBatch.fails[2] >= STOP_AFTER_ATTEMPT
    /\ embBatch.fails[3] < STOP_AFTER_ATTEMPT
    /\ embBatch.out = <<embBatch.vecs[1], ZeroVector, embBatch.vecs[3]>>

\* C5: at every call site of the services a call that keeps failing is
\* attempted exactly STOP_AFTER_ATTEMPT times before its failure is
\* surfaced. (Violated: generate_query_embedding makes one attempt.)
C5_FailingCallAttemptedThreeTimes ==
    call.raised => call.attempts = STOP_AFTER_ATTEMPT

\* C8: batch_process returns one result per text, in order; each result is
\* what the item gives when processed in a batch of its own, and it is None
\* when the item's service call failed on every attempt.
C8_BatchProcessIndependent ==
    procBatch.done =>
        /\ Len(procBatch.out) = Len(procBatch.texts)
        /\ \A i \in 1..Len(procBatch.texts) :
               /\ procBatch.out[i] =
                      batch_process(<<procBatch.texts[i]>>, procBatch.operation,
                                    <<procBatch.fails[i]>>, <<procBatch.responses[i]>>)[1]
               /\ procBatch.fails[i] >= STOP_AFTER_ATTEMPT => procBatch.out[i].none

\* a "latex" batch of three whose middle item failed on every attempt,
\* between two items that got a result
C8_Witness ==
    /\ procBatch.done
    /\ procBatch.operation = "latex"
    /\ Len(procBatch.texts) = 3
    /\ procBatch.fails[2] >= STOP_AFTER_ATTEMPT
    /\ procBatch.out[2].none
    /\ ~procBatch.out[1].none
    /\ ~procBatch.out[3].none

(***************************************************************************)
(* Specification of the pipeline: process_pdf called up to MaxRuns times   *)
(* on one store.                                                           *)
(***************************************************************************)
Init ==
    /\ PipelineIdle
    /\ ServiceIdle
    /\ ConvIdle
    /\ RetrieveIdle
    /\ ToolIdle

\* a process_pdf that goes to the indexing as soon as the page loop has ended
IndexAfterPages(questions) ==
    "index"

\* where process_pdf goes once the page loop has ended
AfterPages(questions) ==
    IF questions = <<>> THEN "index" ELSE "convert"

\* process_pdf is called: extract_chapter_topic returns the topic's pages
ProcessPdf ==
    /\ pc \in {"idle", "returned", "raised"}
    /\ runs < MaxRuns
    /\ \E ct \in ChapterTopics, pages \in PdfContents :
           /\ chapter' = ct[1]
           /\ topic' = ct[2]
           /\ pdf_content' = pages
           /\ pc' = IF pages = <<>> THEN AfterPages(<<>>) ELSE "pages"
    /\ page_i' = 1
    /\ all_questions' = <<>>
    /\ latex_questions' = <<>>
    /\ result' = NoResult
    /\ runs' = runs + 1
    /\ UNCHANGED <<collection, indexed, serviceVars, convVars, retrieval, toolVars>>

\* one iteration of the page loop of process_pdf; ExtractionError is not
\* caught and ends the call
ProcessPage ==
    /\ pc = "pages"
    /\ \E page \in {pdf_content[page_i]} :
       \E processed_text \in {preprocess(page.text)} :
       \E e \in {extract(processed_text)} :
       \E questions \in {all_questions \o WithPage(e.questions, page.page_number)} :
           IF e.raised
           THEN /\ pc' = "raised"
                /\ result' = Raised("ExtractionError")
                /\ UNCHANGED <<page_i, all_questions>>
           ELSE /\ all_questions' = questions
                /\ page_i' = IF page_i < Len(pdf_content) THEN page_i + 1 ELSE 1
                /\ pc' = IF page_i < Len(pdf_content) THEN "pages"
                         ELSE AfterPages(questions)
                /\ UNCHANGED result
    /\ UNCHANGED <<collection, chapter, topic, pdf_content, latex_questions, runs, indexed,
                   serviceVars, convVars, retrieval, toolVars>>

\* one iteration of _convert_questions_to_latex; the error of
\* convert_to_latex is not caught and ends the call
ConvertQuestion ==
    /\ pc = "convert"
    /\ \E fails \in FailModes, response \in LatexResponses :
       \E c \in {ConvertOne(all_questions[page_i], fails, response)} :
               IF c.raised
               THEN /\ pc' = "raised"
                    /\ result' = Raised("RetryError")
                    /\ UNCHANGED <<page_i, latex_questions>>
               ELSE /\ latex_questions' = Append(latex_questions, c.item)
                    /\ page_i' = IF page_i < Len(all_questions) THEN page_i + 1 ELSE 1
                    /\ pc' = IF page_i < Len(all_questions) THEN "convert" ELSE "index"
                    /\ UNCHANGED result
    /\ UNCHANGED <<collection, chapter, topic, pdf_content, all_questions, runs, indexed,
                   serviceVars, convVars, retrieval, toolVars>>

\* _index_questions and the return of process_pdf
IndexQuestions ==
    /\ pc = "index"
    /\ \E documents \in {[i \in 1..Len(latex_questions) |-> DocText(latex_questions[i])]},
          metadatas \in {[i \in 1..Len(latex_questions) |->
                             Metadata(latex_questions[i], chapter, topic)]},
          fails \in [1..Len(latex_questions) -> FailModes],
          vecs \in [1..Len(latex_questions) -> Embeddings],
          rejected \in BOOLEAN :
           /\ rejected => MayReject(documents, metadatas)
           /\ indexed' = [documents |-> documents, metadatas |-> metadatas]
           /\ IF rejected
              THEN /\ pc' = "raised"
                   /\ result' = Raised("ValueError")
                   /\ UNCHANGED collection
              ELSE /\ collection' = add_documents_to_index(collection, documents,
                                                           metadatas, fails, vecs)
                   /\ pc' = "returned"
                   /\ result' = Returned(latex_questions)
    /\ UNCHANGED <<chapter, topic, pdf_content, page_i, all_questions, latex_questions,
                   runs, serviceVars, convVars, retrieval, toolVars>>

Next ==
    \/ ProcessPdf
    \/ ProcessPage
    \/ ConvertQuestion
    \/ IndexQuestions

Spec ==
    Init /\ [][Next]_vars

\* C1: every indexed document carries a recorded validation result in its
\* metadata, a valid flag and an error list: no document reaches the index
\* without validation.
C1_IndexedDocumentsCarryValidation ==
    \A i \in 1..Len(collection) :
        {"valid", "errors"} \subseteq DOMAIN collection[i].metadata

\* C2: a conversion service that fails every attempt for a question never
\* ends the run: the failure is not surfaced, the pipeline falls back to the
\* converter and goes on.
C2_ServiceFailureNotSurfaced ==
    ~(pc = "raised" /\ result.error = "RetryError")

\* C3: a page that fails (segmentation rejects its empty text) does not end
\* the run: no run over pages that hold questions ends with the page's
\* error and without them.
C3_PageFailureDoesNotEndRun ==
    ~(/\ pc = "raised"
      /\ result.error = "ExtractionError"
      /\ \E i \in 1..Len(pdf_content) : QuestionsOf(pdf_content[i].text) # <<>>)

\* C6: indexing is identifier-stable: a document is indexed under the same
\* identifier on every run, so the index never holds one document under two
\* identifiers.
C6_DocumentUnderOneIdentifier ==
    \A i, j \in 1..Len(collection) :
        collection[i].document = collection[j].document
            => collection[i].id = collection[j].id

\* C7: two different documents never receive the same identifier: once a run
\* has returned, the identifier it gave to each of its documents names that
\* document in the index.
C7_IdentifierNamesItsDocument ==
    pc = "returned" =>
        \A i \in 1..Len(latex_questions) :
            \A j \in 1..Len(collection) :
                collection[j].id = DocId(i - 1)
                    => collection[j].document = DocText(latex_questions[i])

(***************************************************************************)
(* Specification of the converter: each thread makes one convert call on   *)
(* the one LaTeXConverter; the calls' steps interleave.                    *)
(***************************************************************************)
\* thread t at step `at` of its call goes to step `to` with the text new
Step(t, at, to, new) ==
    /\ thread[t].pc = at
    /\ thread' = [thread EXCEPT ![t].pc = to, ![t].text = new]

\* convert(text, math_mode) is called
Convert(t) ==
    /\ thread[t].pc = "idle"
    /\ \E text \in ConvInputs, math_mode \in ConvModes :
           thread' = [thread EXCEPT ![t] = [pc |-> "protect", input |-> text,
                                            math_mode |-> math_mode, text |-> text,
                                            out |-> <<>>]]
    /\ UNCHANGED <<_protected_commands, pipelineVars, serviceVars, retrieval, toolVars>>

\* text = self._protect_existing_latex(text), which assigns
\* self._protected_commands
ProtectExistingLatex(t) ==
    /\ Step(t, "protect", "math", _protect_existing_latex(thread[t].text))
    /\ _protected_commands' = FindCommands(thread[t].text)
    /\ UNCHANGED <<pipelineVars, serviceVars, retrieval, toolVars>>

\* text = self._convert_math_expressions(text)
ConvertMathExpressions(t) ==
    /\ Step(t, "math", "special", _convert_math_expressions(thread[t].text))
    /\ UNCHANGED <<_protected_commands, pipelineVars, serviceVars, retrieval, toolVars>>

\* text = self._convert_special_characters(text)
ConvertSpecialCharacters(t) ==
    /\ Step(t, "special", "mode", _convert_special_characters(thread[t].text))
    /\ UNCHANGED <<_protected_commands, pipelineVars, serviceVars, retrieval, toolVars>>

\* text = self._apply_math_mode(text, math_mode)
ApplyMathMode(t) ==
    /\ Step(t, "mode", "format", _apply_math_mode(thread[t].text, thread[t].math_mode))
    /\ UNCHANGED <<_protected_commands, pipelineVars, serviceVars, retrieval, toolVars>>

\* text = self._format_for_document(text), which reads
\* self._protected_commands (the attribute exists: the call has assigned it);
\* return text
FormatForDocument(t) ==
    /\ thread[t].pc = "format"
    /\ \E text \in {_format_for_document(thread[t].text, _protected_commands)} :
           thread' = [thread EXCEPT ![t].pc = "done", ![t].text = text, ![t].out = text]
    /\ UNCHANGED <<_protected_commands, pipelineVars, serviceVars, retrieval, toolVars>>

ConvNext ==
    \E t \in Threads :
        \/ Convert(t)
        \/ ProtectExistingLatex(t)
        \/ ConvertMathExpressions(t)
        \/ ConvertSpecialCharacters(t)
        \/ ApplyMathMode(t)
        \/ FormatForDocument(t)

SpecConv ==
    Init /\ [][ConvNext]_vars

\* C9: convert keeps no state shared between invocations: when a call
\* reaches its last step, which restores the protected commands, the
\* converter holds the commands of that call's own text, whatever other calls
\* were interleaved with it.
C9_CallKeepsItsProtectedCommands ==
    \A t \in Threads :
        thread[t].pc = "format" => _protected_commands = FindCommands(thread[t].input)

(***************************************************************************)
(* Specification of retrieval: documents are added to an empty index, then *)
(* retrieve is called.                                                     *)
(***************************************************************************)
\* Retriever.add_documents_to_index on the empty index
IndexDocuments ==
    /\ collection = <<>>
    /\ RetrieveIdle
    /\ \E n \in 1..MaxDocs :
       \E documents \in [1..n -> RetrieveDocs],
          fails \in [1..n -> FailModes],
          vecs \in [1..n -> Embeddings] :
           collection' = add_documents_to_index(collection, documents,
                                                [i \in 1..n |-> [chapter |-> 30]],
                                                fails, vecs)
    /\ UNCHANGED <<pc, chapter, topic, pdf_content, page_i, all_questions,
                   latex_questions, result, runs, indexed, serviceVars, convVars,
                   retrieval, toolVars>>

\* Retriever.retrieve: the error of generate_query_embedding is not caught
Retrieve ==
    /\ RetrieveIdle
    /\ \E query \in Queries, n_results \in {1, 2, N_RESULTS},
          fails \in {0, 1}, vec \in Embeddings :
       \E query_embedding \in {generate_query_embedding(query, fails, vec)} :
           IF query_embedding.raised
           THEN retrieval' = [state |-> "raised", query |-> query, found |-> <<>>,
                              results |-> <<>>]
           ELSE \E results \in search(collection, query_embedding.vec, n_results) :
                    retrieval' = [state |-> "returned", query |-> query,
                                  found |-> results,
                                  results |-> _rerank_results(query, results)]
    /\ UNCHANGED <<pipelineVars, serviceVars, convVars, toolVars>>

RetrieveNext ==
    \/ IndexDocuments
    \/ Retrieve

SpecRetrieve ==
    Init /\ [][RetrieveNext]_vars

\* C10: in the result of retrieve, of two documents at the same vector
\* distance the one that shares more words with the query comes first.
C10_HigherOverlapRanksFirst ==
    retrieval.state = "returned" =>
        \E overlap \in {[i \in 1..Len(retrieval.results) |->
                           Overlap(retrieval.query, retrieval.results[i].document)]
                        \o <<>>} :
            \A i, j \in 1..Len(retrieval.results) :
                /\ retrieval.results[i].distance = retrieval.results[j].distance
                /\ overlap[i] > overlap[j]
                => i < j

\* C10 witness: retrieve returned two documents at the same distance, and
\* the search had found the one with the lower overlap first.
C10_Witness ==
    /\ retrieval.state = "returned"
    /\ \E i, j \in 1..Len(retrieval.found) :
           /\ i < j
           /\ retrieval.found[i].distance = retrieval.found[j].distance
           /\ Overlap(retrieval.query, retrieval.found[i].document)
                < Overlap(retrieval.query, retrieval.found[j].document)
           /\ retrieval.results[1].id = retrieval.found[j].id

\* the combined score of a result for a query of the words query_words,
\* from its distance and its document
ScoreOf(query_words, r) ==
    CombinedScore(r.distance,
                  IF query_words = {} THEN [num |-> 0, den |-> 1]
                  ELSE [num |-> Cardinality(query_words \cap Words(r.document)),
                        den |-> Cardinality(query_words)])

\* C11: the results of retrieve are the results of the vector store, none
\* added and none dropped, in descending order of the combined score
\* 0.7 * (1 / (1 + distance)) + 0.3 * lexical overlap, and results of equal
\* combined score are in the order the vector store gave them.
C11_RerankIsStableDescendingPermutation ==
    retrieval.state = "returned" =>
        /\ Len(retrieval.results) = Len(retrieval.found)
        /\ \A a \in 1..Len(retrieval.found) :
               Cardinality({i \in 1..Len(retrieval.results) :
                   /\ retrieval.results[i].id = retrieval.found[a].id
                   /\ retrieval.results[i].document = retrieval.found[a].document
                   /\ retrieval.results[i].metadata = retrieval.found[a].metadata
                   /\ retrieval.results[i].distance = retrieval.found[a].distance}) = 1
        /\ \E query_words \in {Words(retrieval.query)} :
               \A i \in 1..Len(retrieval.results) :
                   retrieval.results[i].combined_score
                     = ScoreOf(query_words, retrieval.results[i])
        /\ \A i, j \in 1..Len(retrieval.results) :
               i < j => Geq(retrieval.results[i].combined_score,
                            retrieval.results[j].combined_score)
        /\ \A i, j \in 1..Len(retrieval.results), a, b \in 1..Len(retrieval.found) :
               /\ i < j
               /\ Geq(retrieval.results[j].combined_score,
                      retrieval.results[i].combined_score)
               /\ retrieval.found[a].id = retrieval.results[i].id
               /\ retrieval.found[b].id = retrieval.results[j].id
               => a < b

\* C11 witness: retrieve returned two different documents of equal combined
\* score.
C11_Witness ==
    /\ retrieval.state = "returned"
    /\ Len(retrieval.results) = 2
    /\ retrieval.results[1].document # retrieval.results[2].document
    /\ Geq(retrieval.results[2].combined_score, retrieval.results[1].combined_score)
    /\ Words(retrieval.query) # {}

\* C12: the lexical overlap score of every result is the number of query
\* words found in the document divided by the number of query words, a
\* well-defined number between 0 and 1, and it is 0 when the query has no
\* words.
C12_OverlapScoreIsBoundedFraction ==
    retrieval.state = "returned" =>
        \E query_words \in {Words(retrieval.query)} :
        \A i \in 1..Len(retrieval.results) :
            \E score \in {retrieval.results[i].keyword_score},
               doc_words \in {Words(retrieval.results[i].document)} :
                /\ score.den > 0
                /\ 0 <= score.num
                /\ score.num <= score.den
                /\ query_words = {} => score.num = 0
                /\ query_words # {} =>
                       score.num * Cardinality(query_words)
                         = Cardinality(query_words \cap doc_words) * score.den

\* C12 witness: retrieve scored a result for a query that has no words (the
\* empty query).
C12_Witness ==
    /\ retrieval.state = "returned"
    /\ retrieval.query = <<>>
    /\ Len(retrieval.results) > 0

(***************************************************************************)
(* Python floats.  A float in [0, 2) is the integer hi * 2^28 + lo counted *)
(* in units of 2^-56; a sum is rounded to the 53 significant bits of a     *)
(* double, ties to even.                                                   *)
(***************************************************************************)
Float(hi, lo) ==
    [hi |-> hi, lo |-> lo]

\* the floats the literals 0.1, 0.2, 0.5, 0.8 and 1.0 denote
F0_1 ==
    Float(26843545, 161061274)

F0_2 ==
    Float(53687091, 53687092)

F0_5 ==
    Float(134217728, 0)

F0_8 ==
    Float(214748364, 214748368)

F1_0 ==
    Float(268435456, 0)

F0_0 ==
    Float(0, 0)

\* the spacing of the doubles around a value whose high part is hi
Ulp(hi) ==
    IF hi >= 268435456 THEN 16
    ELSE IF hi >= 134217728 THEN 8
    ELSE IF hi >= 67108864 THEN 4
    ELSE IF hi >= 33554432 THEN 2
    ELSE 1

\* the exact value hi * 2^28 + lo, lo < 2^29, rounded to a double
RoundFloat(hi, lo) ==
    Let(Ulp(hi + (lo \div 268435456)), LAMBDA ulp :
    Let(lo % ulp, LAMBDA r :
    Let(IF 2 * r < ulp THEN lo - r
        ELSE IF 2 * r > ulp THEN lo - r + ulp
        ELSE IF ((lo - r) \div ulp) % 2 = 0 THEN lo - r
        ELSE lo - r + ulp,
        LAMBDA l : Float(hi + (l \div 268435456), l % 268435456))))

\* a + b
FAdd(a, b) ==
    RoundFloat(a.hi + b.hi, a.lo + b.lo)

\* a <= b
FLeq(a, b) ==
    a.hi < b.hi \/ (a.hi = b.hi /\ a.lo <= b.lo)

\* min(a, b)
FMin(a, b) ==
    IF FLeq(a, b) THEN a ELSE b

(***************************************************************************)
(* Question segmentation (extractors/question_extractor.py).               *)
(***************************************************************************)
\* pattern.match(text): a match of pat at the start of text
Match(pat, text) ==
    1 \in OkFrom(pat, text, 1)[1]

\* re.search(pat, text): a match of pat somewhere in text
Search(pat, text) ==
    OkFrom(pat, text, 1)[1] # {}

\* group 1 of re.search("^...", text), for a pattern that matches
GroupOne(pat, text) ==
    Let(OkFrom(pat, text, 1), LAMBDA oks :
        Group(pat, text, 1, EndsFrom(pat, text, oks, 1, 1), 1))

\* core/constants.py QUESTION_PATTERNS, and the two patterns of the
\* "additional heuristics" of _is_question_start
QUESTION_PATTERNS ==
    << <<Plus(Digits, 0), Lit(".")>>,
       <<Lit("Q"), Plus(Digits, 0)>>,
       Lits(<<"E","x","a","m","p","l","e"," ">>) \o <<Plus(Digits, 0)>>,
       Lits(<<"I","l","l","u","s","t","r","a","t","i","o","n"," ">>) \o <<Plus(Digits, 0)>>,
       Lits(<<"E","x","e","r","c","i","s","e">>),
       Lits(<<"P","r","o","b","l","e","m">>) >>

START_HEURISTICS ==
    << <<Lit("("), One(Lower, 0), Lit(")")>>,
       <<Plus({"I", "V", "X"}, 0), Lit(".")>> >>

\* QuestionExtractor._is_question_start
_is_question_start(line) ==
    Let(Strip(line), LAMBDA stripped :
        \/ \E i \in 1..Len(QUESTION_PATTERNS) : Match(QUESTION_PATTERNS[i], stripped)
        \/ \E i \in 1..Len(START_HEURISTICS) : Match(START_HEURISTICS[i], stripped))

RECURSIVE SplitLoop(_, _, _, _)
\* the loop of _split_into_blocks over lines[i..], and the flush after it
SplitLoop(lines, i, blocks, current_block) ==
    IF i > Len(lines)
    THEN (IF current_block # <<>> THEN Append(blocks, Join(current_block, "\n"))
          ELSE blocks)
    ELSE IF _is_question_start(lines[i])
    THEN SplitLoop(lines, i + 1,
                   IF current_block # <<>>
                   THEN Append(blocks, Join(current_block, "\n")) ELSE blocks,
                   <<lines[i]>>)
    ELSE SplitLoop(lines, i + 1, blocks, Append(current_block, lines[i]))

\* a splitting that makes a block of every line
LinesAsBlocks(text) ==
    Split(text, "\n")

\* QuestionExtractor._split_into_blocks
_split_into_blocks(text) ==
    Let(Split(text, "\n"), LAMBDA lines : SplitLoop(lines, 1, <<>>, <<>>))

\* question_indicators of _is_question_block, lower-cased as the loop does
QUESTION_INDICATORS ==
    <<<<"?">>, <<"f","i","n","d">>, <<"c","a","l","c","u","l","a","t","e">>, <<"p","r","o","v","e">>, <<"s","h","o","w"," ","t","h","a","t">>,
      <<"d","e","t","e","r","m","i","n","e">>, <<"e","v","a","l","u","a","t","e">>, <<"s","o","l","v","e">>, <<"i","f">>, <<"w","h","e","n">>,
      <<"w","h","a","t">>, <<"w","h","i","c","h">>, <<"h","o","w">>, <<"w","h","y">>, <<"v","e","r","i","f","y">>, <<"d","e","r","i","v","e">>,
      <<"e","x","p","l","a","i","n">>, <<"s","t","a","t","e">>, <<"d","e","f","i","n","e">>, <<"g","i","v","e","n">>>>

\* math_indicators of _contains_math
MATH_INDICATORS ==
    << <<Plus(Digits, 0), One({"+", "-", "*", "/"}, 0), Plus(Digits, 0)>>,
       <<One({"x", "y"}, 0), Lit("=")>>,
       <<Lit(BS), Plus(Letters, 0)>>,
       <<One({"u222B", "u2211", "u220F", "u221A"}, 0)>>,
       <<Lit("^")>>,
       Lits(<<"_", "{">>),
       Lits(<<BS, "f", "r", "a", "c">>),
       Lits(<<BS, "s", "q", "r", "t">>),
       <<Lit("P"), Lit("("), PlusNot({")"}, 0), Lit(")")>> >>

\* QuestionExtractor._contains_math
_contains_math(text) ==
    \E i \in 1..Len(MATH_INDICATORS) : Search(MATH_INDICATORS[i], text)

\* the loop over question_indicators of _is_question_block
HasQuestionIndicator(block) ==
    Let(ToLower(block), LAMBDA block_lower :
        \E i \in 1..Len(QUESTION_INDICATORS) :
            Contains(block_lower, QUESTION_INDICATORS[i]))

\* a block test that keeps every block
KeepEveryBlock(block) ==
    TRUE

\* QuestionExtractor._is_question_block
_is_question_block(block) ==
    HasQuestionIndicator(block) \/ _contains_math(block)

RECURSIVE RemoveHeadersFrom(_, _, _)
\* re.sub(r'RD SHARMA.*?Class.*?\d+', '', text, flags=re.IGNORECASE) from
\* pos on, for a text without line breaks: a match starts at the first
\* "RD SHARMA", runs over the nearest "Class" and ends with the nearest run
\* of digits after it
RemoveHeadersFrom(text, lower, pos) ==
    Let(Find(lower, <<"r","d"," ","s","h","a","r","m","a">>, pos), LAMBDA p :
        IF p = 0 THEN SubSeq(text, pos, Len(text))
        ELSE Let(Find(lower, <<"c","l","a","s","s">>, p + 9), LAMBDA q :
             IF q = 0 THEN SubSeq(text, pos, Len(text))
             ELSE Let(Eager({r \in (q + 5)..Len(text) : text[r] \in Digits}), LAMBDA rs :
                  IF rs = {} THEN SubSeq(text, pos, Len(text))
                  ELSE Let(MinOf(rs) + RunLen(text, MinOf(rs), Only(Digits), Inf),
                           LAMBDA end : SubSeq(text, pos, p - 1)
                                        \o RemoveHeadersFrom(text, lower, end)))))

\* QuestionExtractor._clean_text
_clean_text(text) ==
    Let(Sub(<<Ws1>>, <<L(<<" ">>)>>, text), LAMBDA t1 :
    Let(Sub(Lits(<<"P","a","g","e"," ">>) \o <<Plus(Digits, 0)>>, <<>>, t1), LAMBDA t2 :
    Let(RemoveHeadersFrom(t2, ToLower(t2), 1), LAMBDA t3 : Strip(t3))))

\* a question type of no keyword: the mutant of the default
UndeterminedQuestionType(text) ==
    Let(ToLower(text), LAMBDA text_lower :
        IF Contains(text_lower, <<"i","l","l","u","s","t","r","a","t","i","o","n">>) THEN "illustration"
        ELSE IF Contains(text_lower, <<"e","x","a","m","p","l","e">>) THEN "example"
        ELSE IF Contains(text_lower, <<"e","x","e","r","c","i","s","e">>) THEN "exercise"
        ELSE IF Contains(text_lower, <<"o","b","j","e","c","t","i","v","e">>) THEN "objective"
        ELSE "None")

\* QuestionExtractor._determine_question_type
_determine_question_type(text) ==
    Let(ToLower(text), LAMBDA text_lower :
        IF Contains(text_lower, <<"i","l","l","u","s","t","r","a","t","i","o","n">>) THEN "illustration"
        ELSE IF Contains(text_lower, <<"e","x","a","m","p","l","e">>) THEN "example"
        ELSE IF Contains(text_lower, <<"e","x","e","r","c","i","s","e">>) THEN "exercise"
        ELSE IF Contains(text_lower, <<"o","b","j","e","c","t","i","v","e">>) THEN "objective"
        ELSE "practice")

\* the values of core/constants.py QuestionType
QuestionTypes ==
    {"illustration", "exercise", "example", "practice", "objective", "subjective"}

\* patterns of _extract_question_number; each has one group
NUMBER_PATTERNS ==
    << <<Plus(Digits, 1), Lit(".")>>,
       <<Lit("Q"), Plus(Digits, 1)>>,
       Lits(<<"Q","u","e","s","t","i","o","n"," ">>) \o <<Plus(Digits, 1)>>,
       <<Lit("("), One(Lower, 1), Lit(")")>>,
       <<Plus({"I", "V", "X"}, 1), Lit(".")>> >>

\* an Optional[str]: None, or a text
None ==
    [none |-> TRUE, text |-> <<>>]

Some(text) ==
    [none |-> FALSE, text |-> text]

RECURSIVE NumberLoop(_, _)
NumberLoop(text, i) ==
    IF i > Len(NUMBER_PATTERNS) THEN None
    ELSE IF Match(NUMBER_PATTERNS[i], text) THEN Some(GroupOne(NUMBER_PATTERNS[i], text))
    ELSE NumberLoop(text, i + 1)

\* QuestionExtractor._extract_question_number
_extract_question_number(text) ==
    Let(text, LAMBDA t : NumberLoop(t, 1))

\* question_keywords of _calculate_confidence
QUESTION_KEYWORDS ==
    <<<<"f","i","n","d">>, <<"p","r","o","v","e">>, <<"s","h","o","w">>, <<"c","a","l","c","u","l","a","t","e">>, <<"d","e","t","e","r","m","i","n","e">>>>

\* any(kw in text.lower() for kw in keywords)
AnyKeyword(keywords, text) ==
    Let(ToLower(text), LAMBDA text_lower :
        \E i \in 1..Len(keywords) : Contains(text_lower, keywords[i]))

\* score += bonus if signal
Bonus(score, signal, bonus) ==
    IF signal THEN FAdd(score, bonus) ELSE score

\* the score of _calculate_confidence for given signals and keywords
ConfidenceOf(text, keywords, cap) ==
    Let(Bonus(F0_5, Contains(text, <<"?">>), F0_2), LAMBDA s1 :
    Let(Bonus(s1, _contains_math(text), F0_1), LAMBDA s2 :
    Let(Bonus(s2, ~_extract_question_number(text).none, F0_1), LAMBDA s3 :
    Let(Bonus(s3, AnyKeyword(keywords, text), F0_1), LAMBDA s4 :
        FMin(s4, cap)))))

\* QuestionExtractor._calculate_confidence
_calculate_confidence(text) ==
    ConfidenceOf(text, QUESTION_KEYWORDS, F1_0)

\* QuestionExtractor._extract_question: the questions (none or one) of a
\* block
_extract_question(block) ==
    Let(_clean_text(block), LAMBDA cleaned :
        IF cleaned = <<>> THEN <<>>
        ELSE <<[text |-> cleaned,
                question_type |-> _determine_question_type(block),
                number |-> _extract_question_number(block),
                page_number |-> 0,
                confidence |-> _calculate_confidence(block)]>>)

\* the loop of extract over the blocks
ExtractBlocks(blocks) ==
    Flatten([i \in 1..Len(blocks) |->
                IF _is_question_block(blocks[i]) THEN _extract_question(blocks[i])
                ELSE <<>>])

\* QuestionExtractor.extract on a source of any type: the questions of the
\* text, or ExtractionError
ExtractSource(source) ==
    IF ~(source.type = "str" /\ validate_source(source.value))
    THEN [state |-> "raised", source |-> source, blocks |-> <<>>, questions |-> <<>>]
    ELSE Let(_split_into_blocks(source.value), LAMBDA blocks :
             [state |-> "returned", source |-> source, blocks |-> blocks,
              questions |-> ExtractBlocks(blocks)])

(***************************************************************************)
(* Specification of segmentation: one call of QuestionExtractor.extract.   *)
(* The extractor keeps nothing from one call to the next.                  *)
(***************************************************************************)
\* the lines the texts given to extract are made of
SegLines ==
    {<<"1","."," ","F","i","n","d"," ","t","h","e"," ","v","a","l","u","e"," ","o","f"," ","x","^","2"," ","+"," ","1","/","2",".">>,
     <<"S","o","l","v","e"," ","i","t">>,
     <<"n","o","t","e","s">>,
     <<"2","+","3">>,
     <<"E","x","a","m","p","l","e"," ","2",":"," ","w","h","y","?">>,
     <<"(","a",")"," ","P","r","o","v","e"," ","x","=","1","?">>,
     <<>>,
     <<"P","a","g","e"," ","7">>,
     <<"R","D"," ","S","H","A","R","M","A"," ","x","^","2"," ","C","l","a","s","s"," ","1","2">>,
     <<"Q","3"," ","S","t","a","t","e"," ","t","h","e"," ","o","b","j","e","c","t","i","v","e">>,
     <<"I","l","l","u","s","t","r","a","t","i","o","n"," ","4"," ","S","h","o","w"," ","t","h","a","t"," ","y","=","2">>,
     <<"I","V","."," ","E","x","e","r","c","i","s","e",":"," ","h","o","w">>}

\* most lines of a text given to extract
MaxLines ==
    2

\* the sources given to extract: texts of 1..MaxLines lines, and values that
\* are not strings
SegSources ==
    {[type |-> "str", value |-> Join(lines, "\n")] :
        lines \in UNION {[1..n -> SegLines] : n \in 1..MaxLines}}
    \cup {[type |-> "NoneType", value |-> <<>>],
          [type |-> "bytes", value |-> <<"1","."," ","F","i","n","d"," ","x">>]}

\* QuestionExtractor.extract
Extract ==
    /\ segmentation.state = "none"
    /\ \E source \in SegSources : segmentation' = ExtractSource(source)
    /\ UNCHANGED <<pipelineVars, serviceVars, convVars, retrieval, validation,
                   report, conversion, extraction, chunking>>

SegmentNext ==
    Extract

SpecSegment ==
    Init /\ [][SegmentNext]_vars

\* the blocks of the text that extract builds a Question from, in order
KeptBlocks(text) ==
    SelectSeq(_split_into_blocks(text),
              LAMBDA block : _is_question_block(block) /\ _clean_text(block) # <<>>)

\* the blocks of the text of the last call that gave its questions
Kept ==
    IF segmentation.state = "returned" THEN KeptBlocks(segmentation.source.value)
    ELSE <<>>

\* C13: every Question returned by extract has a confidence between 0 and 1
\* and a type of the QuestionType enumeration, and the type is practice if
\* the block contains none of the words illustration, example, exercise,
\* objective.
C13_ConfidenceAndTypeWellFormed ==
    segmentation.state = "returned" =>
        /\ Len(segmentation.questions) = Len(Kept)
        /\ \A i \in 1..Len(segmentation.questions) :
               \E q \in {segmentation.questions[i]}, block_lower \in {ToLower(Kept[i])} :
                   /\ FLeq(F0_0, q.confidence)
                   /\ FLeq(q.confidence, F1_0)
                   /\ q.question_type \in QuestionTypes
                   /\ (\A kw \in {<<"i","l","l","u","s","t","r","a","t","i","o","n">>, <<"e","x","a","m","p","l","e">>, <<"e","x","e","r","c","i","s","e">>,
                                  <<"o","b","j","e","c","t","i","v","e">>} : ~Contains(block_lower, kw))
                      => q.question_type = "practice"

\* C13 witness: extract returned a Question of a block that has every
\* confidence signal and none of the type words.
C13_Witness ==
    /\ segmentation.state = "returned"
    /\ \E i \in 1..Len(segmentation.questions) :
           /\ segmentation.questions[i].question_type = "practice"
           /\ ~segmentation.questions[i].number.none
           /\ Contains(segmentation.questions[i].text, <<"?">>)
           /\ ~FLeq(segmentation.questions[i].confidence, FAdd(F0_8, F0_1))

\* no line of the text of the last call starts a block
NoBlockStart ==
    \E lines \in {Split(segmentation.source.value, "\n")} :
        \A i \in 1..Len(lines) : ~_is_question_start(lines[i])

\* C14 (as stated): for a non-empty text in which no line starts a block,
\* extract returns at most one Question, built from the whole text, and
\* returns no Question when the text contains no question indicator.
C14_NoIndicatorGivesNoQuestion ==
    (segmentation.state = "returned" /\ NoBlockStart) =>
        /\ Len(segmentation.questions) <= 1
        /\ \A i \in 1..Len(segmentation.questions) :
               segmentation.questions[i].text = _clean_text(segmentation.source.value)
        /\ ~HasQuestionIndicator(segmentation.source.value)
               => segmentation.questions = <<>>

\* C14 (amended): for a non-empty text in which no line starts a block,
\* extract returns at most one Question, built from the whole text, and
\* returns no Question when the text contains neither a question indicator
\* nor math content.
C14_NoIndicatorNoMathGivesNoQuestion ==
    (segmentation.state = "returned" /\ NoBlockStart) =>
        /\ Len(segmentation.questions) <= 1
        /\ \A i \in 1..Len(segmentation.questions) :
               segmentation.questions[i].text = _clean_text(segmentation.source.value)
        /\ (~HasQuestionIndicator(segmentation.source.value)
              /\ ~_contains_math(segmentation.source.value))
               => segmentation.questions = <<>>

\* C14 witness: extract returned one Question for a text in which no line
\* starts a block and which has math content but no question indicator.
C14_Witness ==
    /\ segmentation.state = "returned"
    /\ NoBlockStart
    /\ ~HasQuestionIndicator(segmentation.source.value)
    /\ _contains_math(segmentation.source.value)
    /\ Len(segmentation.questions) = 1

\* the command verbs among the question indicators of _is_question_block
\* (every indicator but the question mark)
COMMAND_VERBS ==
    SubSeq(QUESTION_INDICATORS, 2, Len(QUESTION_INDICATORS))

\* C15: the confidence of a Question is 0.5, plus 0.2 if its block has a
\* question mark, plus 0.1 if it has math content, plus 0.1 if a number was
\* extracted, plus 0.1 if it has one of the command verbs that keep a block,
\* capped at 1.0.
C15_ConfidenceCountsBlockKeepingVerbs ==
    segmentation.state = "returned" =>
        \A i \in 1..Len(segmentation.questions) :
            segmentation.questions[i].confidence
              = ConfidenceOf(Kept[i], COMMAND_VERBS, F1_0)

\* C16: extract of "1. Find the value of x^2 + 1/2." returns exactly one
\* Question, of number "1", type practice and confidence at least 0.8.
C16_ScenarioConfidenceAtLeastPointEight ==
    (/\ segmentation.state = "returned"
     /\ segmentation.source.value = <<"1","."," ","F","i","n","d"," ","t","h","e"," ","v","a","l","u","e"," ","o","f"," ","x","^","2"," ","+"," ","1","/","2",".">>) =>
        /\ Len(segmentation.questions) = 1
        /\ segmentation.questions[1].number = Some(<<"1">>)
        /\ segmentation.questions[1].question_type = "practice"
        /\ FLeq(F0_8, segmentation.questions[1].confidence)

Error(message) ==
    [message |-> message, commands |-> <<>>]

RECURSIVE FindAllFrom(_, _, _, _)
FindAllFrom(pat, text, oks, pos) ==
    Let(NextMatch(pat, text, oks, pos), LAMBDA m :
        IF m.p = 0 THEN <<>>
        ELSE <<Group(pat, text, m.p, m.ends, 1)>>
             \o FindAllFrom(pat, text, oks, m.ends[Len(pat)]))

\* re.findall(pat, text) for a pattern with one group
FindAll(pat, text) ==
    Let(<<pat, text>>, LAMBDA a :
    Let(OkFrom(a[1], a[2], 1), LAMBDA oks : FindAllFrom(a[1], a[2], oks, 1)))

RECURSIVE CountFrom(_, _, _)
CountFrom(text, s, pos) ==
    Let(Find(text, s, pos), LAMBDA p :
        IF p = 0 THEN 0
        ELSE 1 + Let(p + Len(s), LAMBDA q : CountFrom(text, s, q)))

\* str.count(s)
Count(text, s) ==
    Let(<<text, s>>, LAMBDA a : CountFrom(a[1], a[2], 1))

\* a brace check that compares the numbers of opening and closing braces
BracesCounted(latex) ==
    Count(latex, <<"{">>) = Count(latex, <<"}">>)

RECURSIVE BraceLoop(_, _, _)
\* the loop of _check_balanced_braces from character i on
BraceLoop(latex, i, count) ==
    IF i > Len(latex) THEN count = 0
    ELSE Let(IF latex[i] = "{" THEN count + 1
             ELSE IF latex[i] = "}" THEN count - 1
             ELSE count,
             LAMBDA c : IF c < 0 THEN FALSE ELSE BraceLoop(latex, i + 1, c))

\* Validator._check_balanced_braces
_check_balanced_braces(latex) ==
    BraceLoop(latex, 1, 0)

\* Validator._check_balanced_delimiters
_check_balanced_delimiters(latex) ==
    /\ (Count(latex, <<"$">>) - Count(latex, <<BS, "$">>)) % 2 = 0
    /\ Count(latex, <<BS, "[">>) = Count(latex, <<BS, "]">>)
    /\ Count(latex, <<BS, "(">>) = Count(latex, <<BS, ")">>)
    /\ Let(FindAll(Lits(<<"\\","b","e","g","i","n">>) \o <<Lit("{"), PlusNot({"}"}, 1), Lit("}")>>, latex),
           LAMBDA environments :
               \A i \in 1..Len(environments) :
                   Count(latex, <<"\\","b","e","g","i","n","{">> \o environments[i] \o <<"}">>)
                     = Count(latex, <<"\\","e","n","d","{">> \o environments[i] \o <<"}">>))

\* the commands of the "missing braces" pattern
BRACE_COMMANDS ==
    <<<<"\\","f","r","a","c">>, <<"\\","s","q","r","t">>, <<"\\","s","u","m">>, <<"\\","i","n","t">>>>

\* Validator._check_common_latex_errors
_check_common_latex_errors(latex) ==
    (IF \/ Search(<<Lit("_"), Rep(Not({"\n"}), 0, Inf, 0), Lit("_")>>, latex)
        \/ Search(<<Lit("^"), Rep(Not({"\n"}), 0, Inf, 0), Lit("^")>>, latex)
     THEN <<Error("Double subscripts or superscripts detected")>> ELSE <<>>)
    \o (IF \E i \in 1..Len(BRACE_COMMANDS) :
               Search(Lits(BRACE_COMMANDS[i]) \o <<Ws1, Rep(Not({"{"}), 1, 1, 0)>>, latex)
        THEN <<Error("Missing braces after command")>> ELSE <<>>)
    \o (IF Search(Lits(<<"\\","f","r","a","c">>) \o <<Rep(Not({"{"}), 1, 1, 0)>>, latex)
        THEN <<Error("Invalid fraction syntax")>> ELSE <<>>)

\* valid_commands of _check_invalid_commands
VALID_COMMANDS ==
    {<<"f","r","a","c">>, <<"s","q","r","t">>, <<"s","u","m">>, <<"i","n","t">>, <<"p","r","o","d">>, <<"l","i","m">>,
     <<"s","i","n">>, <<"c","o","s">>, <<"t","a","n">>, <<"l","o","g">>, <<"l","n">>, <<"e","x","p">>,
     <<"a","l","p","h","a">>, <<"b","e","t","a">>, <<"g","a","m","m","a">>, <<"d","e","l","t","a">>, <<"t","h","e","t","a">>,
     <<"l","a","m","b","d","a">>, <<"m","u">>, <<"s","i","g","m","a">>, <<"p","h","i">>, <<"o","m","e","g","a">>,
     <<"i","n","f","t","y">>, <<"p","a","r","t","i","a","l">>, <<"n","a","b","l","a">>, <<"t","i","m","e","s">>, <<"c","d","o","t">>,
     <<"l","e","q">>, <<"g","e","q">>, <<"n","e","q">>, <<"a","p","p","r","o","x">>, <<"e","q","u","i","v">>,
     <<"s","u","b","s","e","t","e","q">>, <<"s","u","p","s","e","t","e","q">>, <<"i","n">>, <<"n","o","t","i","n">>,
     <<"c","u","p">>, <<"c","a","p">>, <<"e","m","p","t","y","s","e","t">>, <<"f","o","r","a","l","l">>, <<"e","x","i","s","t","s">>,
     <<"r","i","g","h","t","a","r","r","o","w">>, <<"l","e","f","t","a","r","r","o","w">>, <<"R","i","g","h","t","a","r","r","o","w">>, <<"L","e","f","t","a","r","r","o","w">>,
     <<"t","e","x","t">>, <<"t","e","x","t","b","f">>, <<"t","e","x","t","i","t">>, <<"m","a","t","h","b","f">>, <<"m","a","t","h","i","t">>,
     <<"b","e","g","i","n">>, <<"e","n","d">>, <<"l","e","f","t">>, <<"r","i","g","h","t">>, <<"b","i","g">>, <<"B","i","g">>,
     <<"b","i","n","o","m">>, <<"c","h","o","o","s","e">>, <<"p","m","a","t","r","i","x">>, <<"b","m","a","t","r","i","x">>, <<"v","m","a","t","r","i","x">>}

\* Validator._check_invalid_commands
_check_invalid_commands(latex) ==
    SelectSeq(FindAll(<<Lit(BS), Plus(Letters, 1)>>, latex),
              LAMBDA cmd : cmd \notin VALID_COMMANDS)

\* Validator.validate_latex
validate_latex(latex) ==
    Let(latex, LAMBDA s :
        (IF ~_check_balanced_braces(s)
         THEN <<Error("Unbalanced braces in LaTeX")>> ELSE <<>>)
        \o (IF ~_check_balanced_delimiters(s)
            THEN <<Error("Unbalanced math delimiters")>> ELSE <<>>)
        \o _check_common_latex_errors(s)
        \o Let(_check_invalid_commands(s), LAMBDA invalid_commands :
               IF invalid_commands # <<>>
               THEN <<[message |-> "Invalid LaTeX commands",
                       commands |-> invalid_commands]>>
               ELSE <<>>))

(***************************************************************************)
(* Specification of validation: one call of Validator.validate_latex, on a *)
(* given markup or on what LaTeXConverter.convert returns for a text.  The *)
(* validator keeps nothing from one call to the next.                      *)
(***************************************************************************)
\* longest markup made of braces and letters given to validate_latex
MaxLen ==
    4

\* the markups given to validate_latex: every text of braces and a letter up
\* to MaxLen characters, and markups with commands and delimiters
LatexInputs ==
    UNION {[1..n -> {"{", "}", "a"}] : n \in 0..MaxLen}
    \cup {<<"\\","f","r","a","c","1","2">>, <<"\\","f","r","a","c"," ","1","2">>, <<"\\","f","r","a","c","{","1","}","{","2","}">>, <<"\\","f","r","a","c"," "," ","{","1","}","{","2","}">>,
          <<"\\","s","q","r","t"," ","x">>, <<"\\","s","q","r","t","x">>, <<"\\","s","u","m","_","{","i","}">>, <<"\\","i","n","t","{","x","}">>, <<"\\","i","n","t"," "," ","x">>,
          <<"$","x","$">>, <<"$","x">>, <<"\\","[","x">>, <<"\\","b","e","g","i","n","{","a","}","x","\\","e","n","d","{","a","}">>, <<"\\","b","e","g","i","n","{","a","}">>,
          <<"\\","f","o","o">>, <<"\\","a","l","p","h","a","\\","b","e","t","a">>, <<"x","_","1","_","2">>, <<"x","^","{","2","}">>}

\* the texts given to convert before validate_latex: texts whose commands
\* are on the validator's list, and texts without commands
RoundTripTexts ==
    {<<"\\","a","l","p","h","a">>, <<"\\","f","r","a","c","{","1","}","{","2","}">>, <<"1","/","2">>, <<"x","^","2">>, <<"x","^","2"," ","+"," ","y","^","2">>,
     <<"A", " ", "u2282", " ", "B">>, <<"u03B1">>, <<"x", " ", "u2264", " ", "3">>,
     <<"P","(","A","|","B",")">>, <<"u222B", " ", "x">>, <<"s","q","r","t","(","x",")">>}

\* convert(text, math_mode) of the texts of RoundTripTexts
CONVERTED ==
    {<<text, math_mode, convert(text, math_mode)>> :
        text \in RoundTripTexts, math_mode \in {"inline", "display"}}

\* Validator.validate_latex(latex)
ValidateLatex ==
    /\ validation.state = "none"
    /\ \E latex \in LatexInputs :
           validation' = [state |-> "validated", text |-> <<>>, latex |-> latex,
                          errors |-> validate_latex(latex)]
    /\ UNCHANGED <<pipelineVars, serviceVars, convVars, retrieval, segmentation,
                   report, conversion, extraction, chunking>>

\* Validator.validate_latex(LaTeXConverter.convert(text, math_mode))
RoundTrip ==
    /\ validation.state = "none"
    /\ \E c \in CONVERTED :
           validation' = [state |-> "roundtrip", text |-> c[1], latex |-> c[3],
                          errors |-> validate_latex(c[3])]
    /\ UNCHANGED <<pipelineVars, serviceVars, convVars, retrieval, segmentation,
                   report, conversion, extraction, chunking>>

ValidateNext ==
    \/ ValidateLatex
    \/ RoundTrip

SpecValidate ==
    Init /\ [][ValidateNext]_vars

\* the running counter over "{" (+1) and "}" (-1) after the first n
\* characters of s
Counter(s, n) ==
    Cardinality({i \in 1..n : s[i] = "{"}) - Cardinality({i \in 1..n : s[i] = "}"})

\* the error list of the last call has this message
Reports(message) ==
    \E i \in 1..Len(validation.errors) : validation.errors[i].message = message

\* C18: the errors of validate_latex(s) contain the brace-imbalance message
\* if and only if the running counter over the braces of s is negative after
\* some prefix of s or is not zero at the end of s.
C18_BraceMessageIffCounterFails ==
    validation.state # "none" =>
        (Reports("Unbalanced braces in LaTeX")
           <=> \/ \E n \in 1..Len(validation.latex) : Counter(validation.latex, n) < 0
               \/ Counter(validation.latex, Len(validation.latex)) # 0)

\* C18 witness: validate_latex reported the brace imbalance of a markup
\* that has as many closing as opening braces.
C18_Witness ==
    /\ validation.state = "validated"
    /\ Reports("Unbalanced braces in LaTeX")
    /\ Counter(validation.latex, Len(validation.latex)) = 0
    /\ \E n \in 1..Len(validation.latex) : validation.latex[n] = "{"

\* C19: when the markup has a frac, sqrt, sum or int command followed
\* immediately by a character that is neither an opening brace nor a letter
\* of a longer command name, as \frac12 has,
\* validate_latex reports it invalid and its errors include the message
\* "Missing braces after command".
C19_MissingBracesReported ==
    (/\ validation.state = "validated"
     /\ \E i \in 1..Len(BRACE_COMMANDS), p \in 1..Len(validation.latex) :
            /\ p + Len(BRACE_COMMANDS[i]) <= Len(validation.latex)
            /\ SubSeq(validation.latex, p, p + Len(BRACE_COMMANDS[i]) - 1) = BRACE_COMMANDS[i]
            /\ validation.latex[p + Len(BRACE_COMMANDS[i])] \notin Letters \cup {"{"})
        => /\ validation.errors # <<>>
           /\ Reports("Missing braces after command")

\* C20: validate_latex of what convert returns, for a text whose commands
\* are all on the validator's list, reports no error.
C20_ConvertedTextValidates ==
    validation.state = "roundtrip" => validation.errors = <<>>

(***************************************************************************)
(* Question validation (processors/validator.py).  A question is a dict;   *)
(* a field of it is absent, None or a string.                              *)
(***************************************************************************)
Absent ==
    [kind |-> "absent", value |-> <<>>]

Null ==
    [kind |-> "None", value |-> <<>>]

Str(value) ==
    [kind |-> "str", value |-> value]

\* question.get(key) is true in a condition: a non-empty string
Truthy(field) ==
    field.kind = "str" /\ field.value # <<>>

\* indicators of _has_question_indicator
VALIDATOR_INDICATORS ==
    <<<<"?">>, <<"f","i","n","d">>, <<"c","a","l","c","u","l","a","t","e">>, <<"p","r","o","v","e">>, <<"s","h","o","w">>,
      <<"d","e","t","e","r","m","i","n","e">>, <<"e","v","a","l","u","a","t","e">>, <<"s","o","l","v","e">>, <<"v","e","r","i","f","y">>>>

\* Validator._has_question_indicator
_has_question_indicator(text) ==
    AnyKeyword(VALIDATOR_INDICATORS, text)

\* Validator.validate_question: question.get('text', '') is None when the key
\* is there with the value None, and None has no lower()
validate_question(question) ==
    Let((IF ~Truthy(question.text) THEN <<Error("Question text is missing")>> ELSE <<>>)
        \o (IF Truthy(question.text) /\ Len(question.text.value) < 10
            THEN <<Error("Question text is too short")>> ELSE <<>>),
        LAMBDA errors1 :
            IF question.text.kind = "None"
            THEN [raised |-> TRUE, error |-> "AttributeError", valid |-> FALSE,
                  errors |-> <<>>]
            ELSE Let(errors1
                     \o (IF ~_has_question_indicator(question.text.value)
                         THEN <<Error("Text doesn't appear to be a question")>>
                         ELSE <<>>)
                     \o (IF Truthy(question.latex) THEN validate_latex(question.latex.value)
                         ELSE <<>>),
                     LAMBDA errors : [raised |-> FALSE, error |-> "", valid |-> errors = <<>>,
                                      errors |-> errors]))

\* the report of validate_batch before the loop
EmptyReport(questions) ==
    [raised |-> FALSE, error |-> "", total |-> Len(questions), valid |-> 0, invalid |-> 0,
     errors |-> <<>>, warnings |-> <<>>]

RECURSIVE BatchLoop(_, _, _)
\* the loop of validate_batch from question i (counted from 0) on; an error
\* of validate_question is not caught
BatchLoop(questions, i, rep) ==
    IF i >= Len(questions) THEN rep
    ELSE Let(validate_question(questions[i + 1]), LAMBDA r :
         IF r.raised
         THEN [raised |-> TRUE, error |-> r.error, total |-> 0, valid |-> 0, invalid |-> 0,
               errors |-> <<>>, warnings |-> <<>>]
         ELSE Let(IF r.valid THEN [rep EXCEPT !.valid = @ + 1]
                  ELSE [rep EXCEPT !.invalid = @ + 1,
                                   !.errors = Append(@, [question_index |-> i,
                                                         errors |-> r.errors])],
                  LAMBDA next : BatchLoop(questions, i + 1, next)))

\* a warning test that is also true at exactly 20%
ManyInvalidOrEqual(rep) ==
    5 * rep.invalid >= rep.total /\ rep.total > 0

\* report['invalid'] > report['total'] * 0.2: the float product is the
\* integer total / 5 when 5 divides total and lies strictly between two
\* integers otherwise, so the test is 5 * invalid > total
ManyInvalid(rep) ==
    5 * rep.invalid > rep.total

\* Validator.validate_batch
validate_batch(questions) ==
    Let(BatchLoop(questions, 0, EmptyReport(questions)), LAMBDA rep :
        IF ~rep.raised /\ ManyInvalid(rep)
        THEN [rep EXCEPT !.warnings =
                 Append(@, "More than 20% of questions failed validation")]
        ELSE rep)

(***************************************************************************)
(* Specification of question validation: one call of validate_question or  *)
(* of validate_batch.                                                      *)
(***************************************************************************)
\* the text and latex fields of the questions given to validate_question
TextFields ==
    {Absent, Null, Str(<<>>), Str(<<"F","i","n","d"," ","x">>), Str(<<"F","i","n","d"," ","t","h","e"," ","v","a","l","u","e"," ","o","f"," ","x">>),
     Str(<<"T","h","e"," ","v","a","l","u","e"," ","1","2","3","4","5">>)}

LatexFields ==
    {Absent, Null, Str(<<>>), Str(<<"$","x","$">>), Str(<<"x","^","{","2","}","}">>)}

ValidatedQuestions ==
    [text : TextFields, latex : LatexFields]

\* the questions the batches are made of: a valid one, an invalid one, and
\* one whose text is None
BatchQuestions ==
    {[text |-> Str(<<"F","i","n","d"," ","t","h","e"," ","v","a","l","u","e"," ","o","f"," ","x">>), latex |-> Absent],
     [text |-> Str(<<"F","i","n","d"," ","x">>), latex |-> Str(<<"$","x","$">>)],
     [text |-> Null, latex |-> Absent]}

\* most questions of a batch
MaxQuestions ==
    6

\* Validator.validate_question(question)
ValidateQuestion ==
    /\ report.state = "none"
    /\ \E question \in ValidatedQuestions :
           report' = [state |-> "done", op |-> "validate_question",
                      questions |-> <<question>>, result |-> validate_question(question)]
    /\ UNCHANGED <<pipelineVars, serviceVars, convVars, retrieval, segmentation,
                   validation, conversion, extraction, chunking>>

\* Validator.validate_batch(questions)
ValidateBatch ==
    /\ report.state = "none"
    /\ \E n \in 0..MaxQuestions :
       \E questions \in [1..n -> BatchQuestions] :
           report' = [state |-> "done", op |-> "validate_batch",
                      questions |-> questions, result |-> validate_batch(questions)]
    /\ UNCHANGED <<pipelineVars, serviceVars, convVars, retrieval, segmentation,
                   validation, conversion, extraction, chunking>>

QuestionNext ==
    \/ ValidateQuestion
    \/ ValidateBatch

SpecQuestion ==
    Init /\ [][QuestionNext]_vars

\* C21: validate_question and validate_batch never raise: for every
\* question, one whose text or latex is absent or None included, they return;
\* an absent or None text is reported as an error of the question, and the
\* question is valid exactly when its error list is empty.
C21_ValidationNeverRaises ==
    report.state = "done" =>
        /\ ~report.result.raised
        /\ report.op = "validate_question" =>
               /\ report.result.valid <=> report.result.errors = <<>>
               /\ report.questions[1].text.kind \in {"absent", "None"} =>
                      \E i \in 1..Len(report.result.errors) :
                          report.result.errors[i].message = "Question text is missing"

\* C22: the report of validate_batch has total = number of questions =
\* valid + invalid, one error entry per invalid question, in order and with
\* the question's index, and the warning exactly when the invalid questions
\* are more than 20% of the batch.
C22_BatchReportConsistent ==
    (report.state = "done" /\ report.op = "validate_batch" /\ ~report.result.raised) =>
        \E rep \in {report.result},
           bad \in {{i \in 0..(Len(report.questions) - 1) :
                        ~validate_question(report.questions[i + 1]).valid}} :
            /\ rep.total = Len(report.questions)
            /\ rep.total = rep.valid + rep.invalid
            /\ rep.invalid = Cardinality(bad)
            /\ Len(rep.errors) = rep.invalid
            /\ {rep.errors[k].question_index : k \in 1..Len(rep.errors)} = bad
            /\ \A k, l \in 1..Len(rep.errors) :
                   k < l => rep.errors[k].question_index < rep.errors[l].question_index
            /\ \A k \in 1..Len(rep.errors) :
                   rep.errors[k].errors
                     = validate_question(report.questions[rep.errors[k].question_index + 1]).errors
            /\ rep.warnings # <<>> <=> 5 * rep.invalid > rep.total
            /\ Len(rep.warnings) <= 1

\* C22 witness: validate_batch returned a report with an invalid question
\* and no warning.
C22_Witness ==
    /\ report.state = "done"
    /\ report.op = "validate_batch"
    /\ ~report.result.raised
    /\ report.result.invalid > 0
    /\ report.result.warnings = <<>>

(***************************************************************************)
(* Specification of conversion: convert(text, math_mode) on a text, then   *)
(* convert again on the result with the same mode.                         *)
(***************************************************************************)
ConversionTexts ==
    RoundTripTexts \cup
    {<<>>, <<"x">>, <<"a","/","b">>, <<"(","a","+","b",")","/","(","c",")">>, <<"\\","s","i","n"," ","x">>, <<"x","_","1">>, <<"$","x","$">>, <<"2"," ","+"," ","3">>,
     <<"\\","f","r","a","c","{","1","}","{","2","}"," ","+"," ","\\","p","i">>}

ConversionModes ==
    {"inline", "display", "none"}

\* <<text, math_mode, convert(text, math_mode), convert of that result>>
TWICE ==
    {Let(convert(a[1], a[2]), LAMBDA out : <<a[1], a[2], out, convert(out, a[2])>>) :
        a \in ConversionTexts \X ConversionModes}

\* LaTeXConverter.convert(text, math_mode)
ConvertText ==
    /\ conversion.state = "none"
    /\ \E c \in TWICE :
           conversion' = [state |-> "converted", text |-> c[1], math_mode |-> c[2],
                          out |-> c[3], again |-> <<>>]
    /\ UNCHANGED <<pipelineVars, serviceVars, convVars, retrieval, segmentation,
                   validation, report, extraction, chunking>>

\* LaTeXConverter.convert on the result of the first call
ConvertAgain ==
    /\ conversion.state = "converted"
    /\ \E c \in TWICE :
           /\ c[1] = conversion.text
           /\ c[2] = conversion.math_mode
           /\ conversion' = [conversion EXCEPT !.state = "twice", !.again = c[4]]
    /\ UNCHANGED <<pipelineVars, serviceVars, convVars, retrieval, segmentation,
                   validation, report, extraction, chunking>>

ConversionNext ==
    \/ ConvertText
    \/ ConvertAgain

SpecConversion ==
    Init /\ [][ConversionNext]_vars

\* C23: convert is idempotent: convert of its own result, with the same
\* mode, is that result (no second pair of delimiters, no command altered).
C23_ConvertIdempotent ==
    conversion.state = "twice" => conversion.again = conversion.out

\* C24: every command of the input of convert is in the output unchanged,
\* and the output holds no placeholder text.
C24_CommandsRestoredVerbatim ==
    conversion.state # "none" =>
        /\ \A i \in DOMAIN FindCommands(conversion.text) :
               Contains(conversion.out, FindCommands(conversion.text)[i])
        /\ ~Contains(conversion.out, <<"_","_","L","A","T","E","X","_">>)

\* C25: convert("1/2", "inline") is $\frac{1}{2}$: the rule of numeric
\* fractions, the first of the fraction rules, makes the command, the other
\* two rules leave it alone, and the delimiters are put around it once.
C25_NumericFractionInline ==
    (conversion.state # "none" /\ conversion.text = <<"1","/","2">>
        /\ conversion.math_mode = "inline") =>
        /\ conversion.out = <<"$","\\","f","r","a","c","{","1","}","{","2","}","$">>
        /\ ApplyRule(FRACTION_PATTERNS[1], conversion.text) = <<"\\","f","r","a","c","{","1","}","{","2","}">>
        /\ _convert_fractions(conversion.text) = <<"\\","f","r","a","c","{","1","}","{","2","}">>

\* C25 witness: convert("1/2", "inline") has returned.
C25_Witness ==
    /\ conversion.state = "converted"
    /\ conversion.text = <<"1","/","2">>
    /\ conversion.math_mode = "inline"
    /\ conversion.out # <<>>

StoreOfOneQuestion ==
    add_documents_to_index(
        <<>>,
        <<DocText(LatexQuestion([Q_FIND EXCEPT !.page_number = 1], <<"$","x","$">>))>>,
        <<Metadata(LatexQuestion([Q_FIND EXCEPT !.page_number = 1], <<"$","x","$">>),
                   30, "30.3")>>,
        <<0>>, <<1>>)

RunInit ==
    /\ collection \in {<<>>, StoreOfOneQuestion}
    /\ pc = "idle"
    /\ chapter = 0
    /\ topic = ""
    /\ pdf_content = <<>>
    /\ page_i = 0
    /\ all_questions = <<>>
    /\ latex_questions = <<>>
    /\ result = NoResult
    /\ runs = 0
    /\ indexed = NoIndexed
    /\ ServiceIdle
    /\ ConvIdle
    /\ RetrieveIdle
    /\ ToolIdle

\* the one call of process_pdf
FirstProcessPdf ==
    /\ pc = "idle"
    /\ ProcessPdf

RunNext ==
    \/ FirstProcessPdf
    \/ ProcessPage
    \/ ConvertQuestion
    \/ IndexQuestions

SpecRun ==
    RunInit /\ [][RunNext]_vars

\* the Questions of the pages of the run, page after page, each with the
\* number of its page
Segmented ==
    Flatten([i \in 1..Len(pdf_content) |->
                [k \in DOMAIN extract(preprocess(pdf_content[i].text)).questions |->
                    [extract(preprocess(pdf_content[i].text)).questions[k]
                        EXCEPT !.page_number = pdf_content[i].page_number]]])

\* C27: process_pdf is all-or-nothing on the index: the store changes only
\* in the indexing step, which the run takes once every page has been
\* segmented and every question converted; a run that raises in the
\* segmentation or in the conversion of a question leaves the store as it
\* was.
C27_IndexOnlyAfterEveryQuestion ==
    [][/\ pc' = "index" =>
              /\ Len(latex_questions') = Len(all_questions')
              /\ \A i \in 1..Len(latex_questions') :
                     latex_questions'[i].original_text = all_questions'[i].text
       /\ collection' # collection => (pc = "index" /\ pc' = "returned")
       /\ (pc' = "raised" /\ result'.error \in {"ExtractionError", "RetryError"})
              => collection' = collection]_vars

\* C27 witness: a run on a non-empty store raised in the conversion of its
\* second question, the first one converted.
C27_Witness ==
    /\ pc = "raised"
    /\ result.error = "RetryError"
    /\ Len(latex_questions) = 1
    /\ Len(all_questions) = 2
    /\ collection # <<>>

\* C28: when process_pdf returns, its questions list has one entry per
\* segmented Question, in the order of the pages and of the blocks of a
\* page; an entry has the text, type, number, page number and confidence
\* of its Question and a non-empty latex; total_questions is the length of
\* the list; and that many documents and metadata records were passed to the
\* index, in the same order.
C28_ResultMatchesSegmentedQuestions ==
    pc = "returned" =>
        \E segmented \in {Segmented}, questions \in {result.questions} :
            /\ result.state = "returned"
            /\ all_questions = segmented
            /\ Len(questions) = Len(segmented)
            /\ result.total_questions = Len(questions)
            /\ \A i \in 1..Len(questions) :
                   /\ questions[i].original_text = segmented[i].text
                   /\ questions[i].question_type = segmented[i].question_type
                   /\ questions[i].number = segmented[i].number
                   /\ questions[i].page_number = segmented[i].page_number
                   /\ questions[i].confidence = segmented[i].confidence
                   /\ questions[i].latex # <<>>
            /\ Len(indexed.documents) = Len(questions)
            /\ Len(indexed.metadatas) = Len(questions)
            /\ \A i \in 1..Len(questions) :
                   /\ indexed.documents[i] = DocText(questions[i])
                   /\ indexed.metadatas[i] = Metadata(questions[i], chapter, topic)

\* C28 witness: a run returned two questions of two pages, one converted by
\* the service and one by the converter.
C28_Witness ==
    /\ pc = "returned"
    /\ Len(result.questions) = 2
    /\ result.questions[1].page_number = 1
    /\ result.questions[2].page_number = 2
    /\ result.questions[1].latex = <<"$","x","$">>
    /\ result.questions[2].latex # <<"$","x","$">>

(***************************************************************************)
(* PDFExtractor.extract_chapter_topic (extractors/pdf_extractor.py) on the *)
(* pages that extract returns for the file.                                *)
(***************************************************************************)
\* CHAPTER_TOPICS (core/constants.py): the topic identifiers of a chapter,
\* in the order of the dictionary
CHAPTER_TOPICS ==
    [c \in {30} |-> <<<<"3","0",".","1">>, <<"3","0",".","2">>, <<"3","0",".","3">>, <<"3","0",".","4">>, <<"3","0",".","5">>, <<"3","0",".","6">>,
                      <<"3","0",".","7">>, <<"3","0",".","8">>, <<"3","0",".","9">>>>]

\* PDFExtractor._get_next_topic
_get_next_topic(ch, current_topic) ==
    IF ch \notin DOMAIN CHAPTER_TOPICS THEN None
    ELSE Let(CHAPTER_TOPICS[ch], LAMBDA topics :
         Let(Eager({i \in 1..Len(topics) : topics[i] = current_topic}), LAMBDA found :
             IF found = {} THEN None
             ELSE IF MinOf(found) < Len(topics) THEN Some(topics[MinOf(found) + 1])
             ELSE None))

RECURSIVE TopicLoop(_, _, _, _, _, _)
\* the loop of extract_chapter_topic from page i on
TopicLoop(pages, i, tp, next_topic, topic_started, topic_pages) ==
    IF i > Len(pages) THEN topic_pages
    ELSE Let(topic_started \/ Contains(pages[i].text, tp), LAMBDA started :
             IF ~started
             THEN TopicLoop(pages, i + 1, tp, next_topic, FALSE, topic_pages)
             ELSE IF ~next_topic.none /\ next_topic.text # <<>>
                     /\ Contains(pages[i].text, next_topic.text)
             THEN Append(topic_pages, pages[i])
             ELSE TopicLoop(pages, i + 1, tp, next_topic, TRUE,
                            Append(topic_pages, pages[i])))

\* an extraction that goes on to the last page of the file
PagesFromTopic(pages, ch, tp) ==
    TopicLoop(pages, 1, tp, None, FALSE, <<>>)

\* the "pages" of PDFExtractor.extract_chapter_topic
extract_chapter_topic(pages, ch, tp) ==
    TopicLoop(pages, 1, tp, _get_next_topic(ch, tp), FALSE, <<>>)

(***************************************************************************)
(* Specification of topic extraction: one call of extract_chapter_topic.   *)
(***************************************************************************)
\* the texts of the pages of the file
TopicPageTexts ==
    {<<"3","0",".","3"," ","C","o","n","d","i","t","i","o","n","a","l">>, <<"3","0",".","4"," ","M","u","l","t","i","p","l","i","c","a","t","i","o","n">>, <<"P","r","o","v","e"," ","x">>,
     <<"3","0",".","3"," ","e","n","d","s",","," ","3","0",".","4"," ","T","h","e","o","r","e","m">>, <<"3","0",".","9"," ","R","a","n","d","o","m">>}

\* most pages of the file
MaxFilePages ==
    3

\* the pages that extract returns, numbered from 1
PdfFiles ==
    UNION {{[i \in 1..n |-> [page_number |-> i, text |-> f[i]]] :
               f \in [1..n -> TopicPageTexts]} : n \in 0..MaxFilePages}

\* the (chapter, topic) arguments: a topic with a next one, the last topic
\* of the chapter, a topic that is not in the table, a chapter that is not
TopicArguments ==
    {<<30, <<"3","0",".","3">>>>, <<30, <<"3","0",".","9">>>>, <<30, <<"P","r","o","v","e">>>>, <<31, <<"3","0",".","3">>>>}

\* PDFExtractor.extract_chapter_topic(pdf_path, chapter, topic)
ExtractChapterTopic ==
    /\ extraction.state = "none"
    /\ \E pages \in PdfFiles, a \in TopicArguments :
           extraction' = [state |-> "returned", pages |-> pages, chapter |-> a[1],
                          topic |-> a[2],
                          topic_pages |-> extract_chapter_topic(pages, a[1], a[2])]
    /\ UNCHANGED <<pipelineVars, serviceVars, convVars, retrieval, segmentation,
                   validation, report, conversion, chunking>>

TopicNext ==
    ExtractChapterTopic

SpecTopic ==
    Init /\ [][TopicNext]_vars

\* the next topic of the call, from the table of the chapters
NextInTable ==
    IF extraction.chapter \in DOMAIN CHAPTER_TOPICS
    THEN {CHAPTER_TOPICS[extraction.chapter][i + 1] :
             i \in {j \in 1..(Len(CHAPTER_TOPICS[extraction.chapter]) - 1) :
                       CHAPTER_TOPICS[extraction.chapter][j] = extraction.topic}}
    ELSE {}

\* C29: extract_chapter_topic returns a run of consecutive pages of the
\* file, in order: from the first page whose text contains the topic to the
\* first page from there on that contains the next topic, that page
\* included, or to the last page when there is no next topic or no such
\* page; no page when the topic is on no page.
C29_TopicPagesContiguous ==
    extraction.state = "returned" =>
        \E pages \in {extraction.pages}, next \in {NextInTable} :
        \E starts \in {{i \in 1..Len(pages) : Contains(pages[i].text, extraction.topic)}} :
            IF starts = {} THEN extraction.topic_pages = <<>>
            ELSE \E first \in {MinOf(starts)} :
                 \E ends \in {{i \in first..Len(pages) :
                                  \E t \in next : Contains(pages[i].text, t)}} :
                     extraction.topic_pages
                       = SubSeq(pages, first, IF ends = {} THEN Len(pages) ELSE MinOf(ends))

\* C29 witness: the topic starts on the second page of three and the next
\* topic is on the third, and the call returned those two pages.
C29_Witness ==
    /\ extraction.state = "returned"
    /\ Len(extraction.pages) = 3
    /\ extraction.topic = <<"3","0",".","3">>
    /\ extraction.chapter = 30
    /\ extraction.pages[1].text = <<"P","r","o","v","e"," ","x">>
    /\ extraction.pages[2].text = <<"3","0",".","3"," ","C","o","n","d","i","t","i","o","n","a","l">>
    /\ Len(extraction.topic_pages) = 2

(***************************************************************************)
(* chunk_text (utils/helpers.py), one iteration of its loop at a time.     *)
(***************************************************************************)
\* an index of a slice brought into 0..n as Python does: a negative one
\* counts from the end
SliceIndex(i, n) ==
    IF i < 0 THEN (IF i + n < 0 THEN 0 ELSE i + n)
    ELSE IF i > n THEN n ELSE i

\* text[start:end]
Slice(text, start, end) ==
    SubSeq(text, SliceIndex(start, Len(text)) + 1, SliceIndex(end, Len(text)))

\* the texts given to chunk_text
ChunkTexts ==
    {<<>>, <<"a">>, <<"a","b">>, <<"a","b","c">>, <<"a","b","c","d">>}

\* largest chunk_size
MaxChunkSize ==
    3

\* largest overlap
MaxOverlap ==
    2

\* iterations of the loop that are followed
MaxChunks ==
    5

\* chunk_text(text, chunk_size, overlap) is called: chunks = [], start = 0
ChunkText ==
    /\ chunking.pc = "idle"
    /\ \E text \in ChunkTexts, chunk_size \in 1..MaxChunkSize, overlap \in 0..MaxOverlap :
           chunking' = [pc |-> "loop", text |-> text, chunk_size |-> chunk_size,
                        overlap |-> overlap, start |-> 0, chunks |-> <<>>]
    /\ UNCHANGED <<pipelineVars, serviceVars, convVars, retrieval, segmentation,
                   validation, report, conversion, extraction>>

\* one iteration of "while start < len(text)"
ChunkLoop ==
    /\ chunking.pc = "loop"
    /\ chunking.start < Len(chunking.text)
    /\ Len(chunking.chunks) < MaxChunks
    /\ \E end \in {chunking.start + chunking.chunk_size} :
           chunking' = [chunking EXCEPT
                           !.chunks = Append(@, Slice(chunking.text, chunking.start, end)),
                           !.start = end - chunking.overlap]
    /\ UNCHANGED <<pipelineVars, serviceVars, convVars, retrieval, segmentation,
                   validation, report, conversion, extraction>>

\* the loop ends: return chunks
ChunkReturn ==
    /\ chunking.pc = "loop"
    /\ chunking.start >= Len(chunking.text)
    /\ chunking' = [chunking EXCEPT !.pc = "returned"]
    /\ UNCHANGED <<pipelineVars, serviceVars, convVars, retrieval, segmentation,
                   validation, report, conversion, extraction>>

ChunkNext ==
    \/ ChunkText
    \/ ChunkLoop
    \/ ChunkReturn

SpecChunk ==
    Init /\ [][ChunkNext]_vars

\* the positions of the text that chunk i of a returned call was cut from
ChunkPositions(i) ==
    {p \in 1..Len(chunking.text) :
        /\ p > (i - 1) * (chunking.chunk_size - chunking.overlap)
        /\ p <= (i - 1) * (chunking.chunk_size - chunking.overlap) + chunking.chunk_size}

\* C30: chunk_text terminates for every text, chunk_size >= 1 and
\* overlap >= 0: start is strictly greater after every iteration of the
\* loop; and the chunks returned cover every character of the text, in
\* order.
C30_StartIncreasesAndChunksCover ==
    [][/\ (chunking.pc = "loop" /\ chunking'.pc = "loop")
              => chunking'.start > chunking.start
       /\ chunking'.pc = "returned" =>
              /\ UNION {ChunkPositions(i) : i \in 1..Len(chunking'.chunks)}
                     = 1..Len(chunking'.text)
              /\ \A i \in 1..Len(chunking'.chunks) :
                     \E ps \in {ChunkPositions(i)} :
                         /\ ps # {}
                         /\ chunking'.chunks[i]
                              = SubSeq(chunking'.text, MinOf(ps), MaxOf(ps))]_vars

====
